---- MODULE Spec2Model ----
(***************************************************************************)
(* Verification model of the-palette: the colour engine (colour model,     *)
(* harmony generator, interpolation engine), the image colour extractor    *)
(* (pixel filter, k-means) and the React panels that drive them.           *)
(*                                                                         *)
(* Numbers are fixed point.  Hue: 1/1000 degree (Turn = 360 degrees).      *)
(* OKLCH lightness and chroma: 1/1000 (LOne = 1.0).  HSL saturation and    *)
(* lightness: 1/100 percent (Pct100 = 100 percent).  A parametric position *)
(* t is the exact fraction tn/td.                                          *)
(***************************************************************************)
EXTENDS Integers, Sequences, FiniteSets, TLC

VARIABLES
    hueOp, hueIn, hueOut,                       \* a call of normalizeHue / lerpHue
    ipInputColors, ipMethod, ipSteps, ipColorSpace,   \* InterpolationPanel: inputColors, method, steps, colorSpace
    interpolatedColors, ipCalled,                     \* its interpolatedColors, and whether the call was made
    hmBase, hmSpace, hmConfig, harmonyColors, hmCalled,   \* a call generateHarmony(baseColor, config, colorSpace) and its result
    harmonyType, goldenCount, analogousSpread, hpTyped,   \* HarmonicPanel state; the text last typed into its count input
    imColors, imColorCount, isLoading, imError, previewUrl,   \* ImagePanel state: colors, colorCount, isLoading, error, previewUrl
    pgBaseColor,                                          \* Home: baseColor
    extractions,                                          \* the handleExtract calls so far, in issue order
    exData, exColorCount, exPc,                 \* one run of extractColorsFromImage after the load: imageData.data, colorCount, position
    exPixels, exCentroids, exSeeds,             \* pixels, centroids, the pixel indices the seeding pushed
    exSeedIterations, exIter, exFinal,          \* seeding iterations run, Lloyd iterations run, final assignment passes run
    exClusters, exColors,                       \* what kMeansClustering returned, and the colours returned
    smLength, smExamined,                       \* getPixelsFromImageData's sampling loop: pixels in the image, pixels examined
    cfConfig, cfSpace, cfClock, cfCalls,        \* generateColorful: the caller's config and colour space, Date.now(), the calls so far
    vrBase, vrSpace, vrConfig,                  \* a call generateVariations(baseColor, config, colorSpace)
    variationColors, vrCalled,                  \* its result, and whether the call was made
    tnBase, tnSteps, tnSpace,                   \* a call generateTonalScale(baseColor, steps, colorSpace)
    tonalColors, tnChromas, tnCalled,           \* its result, the chromas it computed, and whether the call was made
    ctBg, ctFn, ctOut                           \* a call of getContrastTextColor(Fast): its argument, which function, its result

hueVars    == <<hueOp, hueIn, hueOut>>
interpVars == <<ipInputColors, ipMethod, ipSteps, ipColorSpace, interpolatedColors, ipCalled>>
harmonyVars == <<hmBase, hmSpace, hmConfig, harmonyColors, hmCalled>>
hpanelVars  == <<harmonyType, goldenCount, analogousSpread, hpTyped>>
imageVars   == <<imColors, imColorCount, isLoading, imError, previewUrl, pgBaseColor, extractions>>
pipeVars    == <<exData, exColorCount, exPc, exPixels, exCentroids, exSeeds,
                 exSeedIterations, exIter, exFinal, exClusters, exColors>>
sampleVars  == <<smLength, smExamined>>
colorfulVars  == <<cfConfig, cfSpace, cfClock, cfCalls>>
variationVars == <<vrBase, vrSpace, vrConfig, variationColors, vrCalled>>
tonalVars     == <<tnBase, tnSteps, tnSpace, tonalColors, tnChromas, tnCalled>>
contrastVars  == <<ctBg, ctFn, ctOut>>
genVars     == <<colorfulVars, variationVars, tonalVars, contrastVars>>
moreVars    == <<pipeVars, sampleVars, genVars>>
vars       == <<hueVars, interpVars, harmonyVars, hpanelVars, imageVars, moreVars>>

----------------------------------------------------------------------------
(* Bounds of the model *)

MaxTurns   == 2      \* normalizeHue is tried on hues within +-MaxTurns turns (and one beyond)
MaxPoints  == 3      \* control points of an interpolation
MaxSteps   == 4      \* steps of an interpolation
MaxCount   == 4      \* largest count handed to generateHarmony directly
MaxExtractions == 2  \* handleExtract calls in one behaviour
MaxImagePixels == 2  \* pixels of the images built from FilterPixels
MaxSeedRetries == 2  \* seeding iterations of one run that push nothing
MaxColorfulCount == 4   \* count of a generateColorful config
MaxColorfulCalls == 3   \* generateColorful calls in one behaviour
MaxClock == 2           \* Date.now() at the end of a behaviour that starts at 1
MaxVariationCount == 5  \* count of a generateVariations config

----------------------------------------------------------------------------
(* Units *)

Turn    == 360000    \* 360 degrees
Deg     == 1000      \* one degree
LOne    == 1000      \* OKLCH lightness 1.0
Pct100  == 10000     \* 100 percent
NaN     == -1000000000   \* the hue of an achromatic colour when culori leaves it out

Min(a, b) == IF a < b THEN a ELSE b
Max(a, b) == IF a > b THEN a ELSE b
Abs(a)    == IF a < 0 THEN -a ELSE a

\* JavaScript's % : the remainder takes the sign of the dividend (b > 0)
JsRem(a, b) == IF a >= 0 THEN a % b ELSE -((-a) % b)

----------------------------------------------------------------------------
(* color-utils.ts *)

\* normalizeHue with the second remainder only: a negative hue stays negative
normalizeHueNoWrap(h) == JsRem(h, Turn)

normalizeHue(h) == JsRem(JsRem(h, Turn) + Turn, Turn)

----------------------------------------------------------------------------
(* interpolation.ts: lerp, lerpHue *)

lerp(a, b, tn, td) == a + ((b - a) * tn) \div td

\* lerpHue that interpolates the raw numeric difference (no shortest path)
lerpHueNaive(h1, h2, tn, td) ==
    LET a1 == IF h1 = NaN THEN h2 ELSE h1
        a2 == IF h2 = NaN THEN a1 ELSE h2
    IN  IF a1 = NaN /\ a2 = NaN THEN 0
        ELSE JsRem(a1 + ((a2 - a1) * tn) \div td + Turn, Turn)

lerpHue(h1, h2, tn, td) ==
    LET a1 == IF h1 = NaN THEN h2 ELSE h1
        a2 == IF h2 = NaN THEN a1 ELSE h2
    IN  IF a1 = NaN /\ a2 = NaN THEN 0
        ELSE LET diff0 == a2 - a1
                 diff1 == IF diff0 > 180 * Deg THEN diff0 - Turn ELSE diff0
                 diff  == IF diff1 < -180 * Deg THEN diff1 + Turn ELSE diff1
             IN  JsRem(a1 + (diff * tn) \div td + Turn, Turn)

----------------------------------------------------------------------------
(* culori (external library), as color-utils.ts uses it.  A culori colour  *)
(* is [l, c, h] (OKLCH) or [h, s, l] (HSL); h = NaN stands for a hue that  *)
(* culori leaves out (achromatic).  The sRGB gamut and the converters are  *)
(* piecewise-linear stand-ins that keep what the callers rely on: the      *)
(* gamut boundary depends on lightness and hue, the two converters are     *)
(* inverse to each other on chromatic colours, achromatic colours carry no *)
(* hue, and the hex string is a function of the displayed colour only.     *)

HueShift == 29000    \* OKLCH hue of sRGB red (HSL hue 0)

\* the cusp (lightness, chroma) of the sRGB gamut in the hue sector of h
Cusp(h) ==
    LET d == (h % Turn) \div Deg
    IN  IF d < 70  THEN [l |-> 628, c |-> 258]      \* red
        ELSE IF d < 125 THEN [l |-> 968, c |-> 211] \* yellow
        ELSE IF d < 170 THEN [l |-> 866, c |-> 295] \* green
        ELSE IF d < 230 THEN [l |-> 905, c |-> 155] \* cyan
        ELSE IF d < 300 THEN [l |-> 452, c |-> 313] \* blue
        ELSE                 [l |-> 702, c |-> 322] \* magenta

\* the largest chroma that is displayable in sRGB at lightness l and hue h
MaxChroma(l, h) ==
    LET k == Cusp(IF h = NaN THEN 0 ELSE h)
    IN  IF l <= 0 \/ l >= LOne THEN 0
        ELSE IF l <= k.l THEN (k.c * l) \div k.l
        ELSE (k.c * (LOne - l)) \div (LOne - k.l)

displayable(col) == col.l >= 0 /\ col.l <= LOne /\ col.c <= MaxChroma(col.l, col.h)

\* clampChroma that returns its argument unchanged
clampChromaOff(col) == col

\* clampChroma(color, "oklch"): a displayable colour is returned as it is;
\* otherwise the chroma is reduced to the gamut boundary, keeping l and h;
\* a lightness outside [0, 1] has no displayable chroma and is clipped in RGB
clampChroma(col) ==
    IF displayable(col) THEN col
    ELSE IF col.l < 0 \/ col.l > LOne
         THEN [l |-> Max(0, Min(LOne, col.l)), c |-> 0, h |-> NaN]
         ELSE [l |-> col.l, c |-> MaxChroma(col.l, col.h), h |-> col.h]

\* converter("hsl") applied to an OKLCH colour; s and l come out in 1/100 percent
toHsl(col) ==
    IF col.c = 0 THEN [h |-> NaN, s |-> 0, l |-> 10 * col.l]
    ELSE [h |-> (col.h - HueShift) % Turn, s |-> 25 * col.c, l |-> 10 * col.l]

\* converter("oklch") applied to an HSL colour (s, l in 1/100 percent)
toOklch(col) ==
    IF col.s = 0 THEN [l |-> col.l \div 10, c |-> 0, h |-> NaN]
    ELSE [l |-> col.l \div 10, c |-> col.s \div 25, h |-> (col.h + HueShift) % Turn]

\* formatHex(toRgb(col)): the displayed colour; an achromatic colour has no hue
formatHex(col) ==
    IF col.c = 0 THEN <<col.l, 0, 0>> ELSE <<col.l, col.c, col.h % Turn>>

\* x ?? 0
OrZero(x) == IF x = NaN THEN 0 ELSE x

----------------------------------------------------------------------------
(* color-utils.ts: ColorResult constructors.  A ColorResult is             *)
(* [hex, oklch: [l, c, h], hsl: [h, s, l]]; rgb and the css strings are    *)
(* functions of the same clamped colour as hex and are not carried.        *)

null == [hex |-> <<>>]

\* a colour string: valid = FALSE is a string culori's parse does not recognise,
\* otherwise l, c, h are the OKLCH coordinates culori gives the literal
parseColor(input) ==
    IF ~input.valid THEN null
    ELSE LET oklchColor == [l |-> input.l, c |-> input.c, h |-> input.h]
             clamped    == clampChroma(oklchColor)
             clampedHsl == toHsl(clamped)
         IN  [hex   |-> formatHex(clamped),
              oklch |-> [l |-> clamped.l, c |-> clamped.c, h |-> OrZero(clamped.h)],
              hsl   |-> [h |-> OrZero(clampedHsl.h), s |-> clampedHsl.s, l |-> clampedHsl.l]]

fromOklch(l, c, h) ==
    LET color    == [l |-> l, c |-> c, h |-> h]
        clamped  == clampChroma(color)
        hslColor == toHsl(clamped)
    IN  [hex   |-> formatHex(clamped),
         oklch |-> [l |-> clamped.l, c |-> clamped.c, h |-> OrZero(clamped.h)],
         hsl   |-> [h |-> OrZero(hslColor.h), s |-> hslColor.s, l |-> hslColor.l]]

fromHsl(h, s, l) ==
    LET color      == [h |-> h, s |-> s, l |-> l]
        oklchColor == toOklch(color)
        clamped    == clampChroma(oklchColor)
    IN  [hex   |-> formatHex(clamped),
         oklch |-> [l |-> clamped.l, c |-> clamped.c, h |-> OrZero(clamped.h)],
         hsl   |-> [h |-> h, s |-> s, l |-> l]]

----------------------------------------------------------------------------
(* interpolation.ts: interpolateLinear, catmullRom, interpolateCatmullRom *)

\* segmentIndexAt that stops one segment early
segmentIndexAtLow(i, steps, segments) ==
    Min((i * segments) \div (steps - 1), Max(segments - 2, 0))

\* position i of `steps` on `segments` segments: globalPos = i*segments/(steps-1)
segmentIndexAt(i, steps, segments) == Min((i * segments) \div (steps - 1), segments - 1)
\* localT = globalPos - segmentIndex, as the fraction localTn / (steps - 1)
localTn(i, steps, segments) == i * segments - segmentIndexAt(i, steps, segments) * (steps - 1)

linearColorAt(colors, steps, space, i) ==
    LET segments == Len(colors) - 1
        seg      == segmentIndexAt(i, steps, segments)
        tn       == localTn(i, steps, segments)
        td       == steps - 1
        c1       == colors[seg + 1]
        c2       == colors[seg + 2]
    IN  IF space = "oklch"
        THEN fromOklch(lerp(c1.oklch.l, c2.oklch.l, tn, td),
                       lerp(c1.oklch.c, c2.oklch.c, tn, td),
                       lerpHue(c1.oklch.h, c2.oklch.h, tn, td))
        ELSE fromHsl(lerpHue(c1.hsl.h, c2.hsl.h, tn, td),
                     lerp(c1.hsl.s, c2.hsl.s, tn, td),
                     lerp(c1.hsl.l, c2.hsl.l, tn, td))

\* interpolateLinear whose loop stops one step early
interpolateLinearShort(colors, steps, space) ==
    IF Len(colors) = 0 THEN <<>>
    ELSE IF Len(colors) = 1 THEN <<colors[1]>>
    ELSE IF steps < 2 THEN <<colors[1], colors[Len(colors)]>>
    ELSE [i \in 1..(steps - 1) |-> linearColorAt(colors, steps, space, i - 1)]

interpolateLinear(colors, steps, space) ==
    IF Len(colors) = 0 THEN <<>>
    ELSE IF Len(colors) = 1 THEN <<colors[1]>>
    ELSE IF steps < 2 THEN <<colors[1], colors[Len(colors)]>>
    ELSE [i \in 1..steps |-> linearColorAt(colors, steps, space, i - 1)]

\* the uniform cubic B-spline on the same four points
catmullRomBSpline(p0, p1, p2, p3, tn, td) ==
    (p0 + 4 * p1 + p2
     + ((-3 * p0 + 3 * p2) * tn) \div td
     + ((3 * p0 - 6 * p1 + 3 * p2) * (tn * tn)) \div (td * td)
     + ((-p0 + 3 * p1 - 3 * p2 + p3) * (tn * tn * tn)) \div (td * td * td)) \div 6

\* 0.5 * (2 p1 + (-p0 + p2) t + (2 p0 - 5 p1 + 4 p2 - p3) t^2 + (-p0 + 3 p1 - 3 p2 + p3) t^3)
catmullRom(p0, p1, p2, p3, tn, td) ==
    (2 * p1
     + ((-p0 + p2) * tn) \div td
     + ((2 * p0 - 5 * p1 + 4 * p2 - p3) * (tn * tn)) \div (td * td)
     + ((-p0 + 3 * p1 - 3 * p2 + p3) * (tn * tn * tn)) \div (td * td * td)) \div 2

RECURSIVE unwrapDiff(_)
unwrapDiff(diff) ==
    IF diff > 180 * Deg THEN unwrapDiff(diff - Turn)
    ELSE IF diff < -180 * Deg THEN unwrapDiff(diff + Turn)
    ELSE diff

unwrap(prev, curr) == prev + unwrapDiff(curr - prev)

catmullRomHue(h0, h1, h2, h3, tn, td) ==
    LET uh1 == h1
        uh0 == unwrap(uh1, h0)
        uh2 == unwrap(uh1, h2)
        uh3 == unwrap(uh2, h3)
        result == catmullRom(uh0, uh1, uh2, uh3, tn, td)
    IN  JsRem(JsRem(result, Turn) + Turn, Turn)

\* the indices (from 0) of the control points p0, p1, p2, p3 of segment seg
controlIndices(seg, n) ==
    <<Max(0, seg - 1), seg, Min(n - 1, seg + 1), Min(n - 1, seg + 2)>>

\* catmullRomRequestAt without the Math.max and Math.min around the spline values
catmullRomRequestAtNoClamp(colors, steps, space, i) ==
    LET n        == Len(colors)
        segments == n - 1
        idx      == controlIndices(segmentIndexAt(i, steps, segments), n)
        tn       == localTn(i, steps, segments)
        td       == steps - 1
        p0       == colors[idx[1] + 1]
        p1       == colors[idx[2] + 1]
        p2       == colors[idx[3] + 1]
        p3       == colors[idx[4] + 1]
    IN  IF space = "oklch"
        THEN [l |-> catmullRom(p0.oklch.l, p1.oklch.l, p2.oklch.l, p3.oklch.l, tn, td),
              c |-> catmullRom(p0.oklch.c, p1.oklch.c, p2.oklch.c, p3.oklch.c, tn, td),
              h |-> catmullRomHue(p0.oklch.h, p1.oklch.h, p2.oklch.h, p3.oklch.h, tn, td)]
        ELSE [h |-> catmullRomHue(p0.hsl.h, p1.hsl.h, p2.hsl.h, p3.hsl.h, tn, td),
              s |-> catmullRom(p0.hsl.s, p1.hsl.s, p2.hsl.s, p3.hsl.s, tn, td),
              l |-> catmullRom(p0.hsl.l, p1.hsl.l, p2.hsl.l, p3.hsl.l, tn, td)]

\* the arguments step i of interpolateCatmullRom passes to fromOklch ([l, c, h])
\* or to fromHsl ([h, s, l])
catmullRomRequestAt(colors, steps, space, i) ==
    LET n        == Len(colors)
        segments == n - 1
        idx      == controlIndices(segmentIndexAt(i, steps, segments), n)
        tn       == localTn(i, steps, segments)
        td       == steps - 1
        p0       == colors[idx[1] + 1]
        p1       == colors[idx[2] + 1]
        p2       == colors[idx[3] + 1]
        p3       == colors[idx[4] + 1]
    IN  IF space = "oklch"
        THEN LET l == catmullRom(p0.oklch.l, p1.oklch.l, p2.oklch.l, p3.oklch.l, tn, td)
                 c == Max(0, catmullRom(p0.oklch.c, p1.oklch.c, p2.oklch.c, p3.oklch.c, tn, td))
                 h == catmullRomHue(p0.oklch.h, p1.oklch.h, p2.oklch.h, p3.oklch.h, tn, td)
             IN  [l |-> Max(0, Min(LOne, l)), c |-> c, h |-> h]
        ELSE LET h == catmullRomHue(p0.hsl.h, p1.hsl.h, p2.hsl.h, p3.hsl.h, tn, td)
                 s == Max(0, Min(Pct100, catmullRom(p0.hsl.s, p1.hsl.s, p2.hsl.s, p3.hsl.s, tn, td)))
                 l == Max(0, Min(Pct100, catmullRom(p0.hsl.l, p1.hsl.l, p2.hsl.l, p3.hsl.l, tn, td)))
             IN  [h |-> h, s |-> s, l |-> l]

\* color = fromOklch(l, c, h) or color = fromHsl(h, s, l)
requestColor(r, space) ==
    IF space = "oklch" THEN fromOklch(r.l, r.c, r.h) ELSE fromHsl(r.h, r.s, r.l)

catmullRomColorAt(colors, steps, space, i) ==
    requestColor(catmullRomRequestAt(colors, steps, space, i), space)

\* interpolateCatmullRom that runs the spline on two control points as well
interpolateCatmullRomNoFallback(colors, steps, space) ==
    IF Len(colors) = 0 THEN <<>>
    ELSE IF Len(colors) = 1 THEN <<colors[1]>>
    ELSE IF steps < 2 THEN <<colors[1], colors[Len(colors)]>>
    ELSE [i \in 1..steps |-> catmullRomColorAt(colors, steps, space, i - 1)]

\* interpolateCatmullRom that answers steps < 2 with the first control point only
interpolateCatmullRomFirstOnly(colors, steps, space) ==
    IF Len(colors) = 0 THEN <<>>
    ELSE IF Len(colors) = 1 THEN <<colors[1]>>
    ELSE IF steps < 2 THEN <<colors[1]>>
    ELSE IF Len(colors) = 2 THEN interpolateLinear(colors, steps, space)
    ELSE [i \in 1..steps |-> catmullRomColorAt(colors, steps, space, i - 1)]

interpolateCatmullRom(colors, steps, space) ==
    IF Len(colors) = 0 THEN <<>>
    ELSE IF Len(colors) = 1 THEN <<colors[1]>>
    ELSE IF Len(colors) = 2 THEN interpolateLinear(colors, steps, space)
    ELSE IF steps < 2 THEN <<colors[1], colors[Len(colors)]>>
    ELSE [i \in 1..steps |-> catmullRomColorAt(colors, steps, space, i - 1)]

interpolateColors(colors, config, space) ==
    IF config.method = "catmull-rom"
    THEN interpolateCatmullRom(colors, config.steps, space)
    ELSE interpolateLinear(colors, config.steps, space)

----------------------------------------------------------------------------
(* harmonic.ts: generateHarmony *)

Undefined == -1000000001     \* an option the caller leaves out

HarmonyTypes ==
    {"complementary", "split-complementary", "triadic", "tetradic", "analogous", "golden-ratio"}

goldenAngle == 137507764     \* 137.507764 degrees, in 1/1000000 degree

\* i * goldenAngle in 1/1000 degree: i * 137507 + (i * 764) / 1000
goldenTimes(i) == i * (goldenAngle \div 1000) + (i * (goldenAngle % 1000)) \div 1000

\* one push of the switch: the base colour itself, or createColor(hue)
pushBase        == [base |-> TRUE, hue |-> 0]
pushCreate(hue) == [base |-> FALSE, hue |-> hue]

\* the switch of generateHarmonyOklch / generateHarmonyHsl with tetradic offsets 90, 180, 280
harmonySwitchSkewed(h, type, count, spread) ==
    CASE type = "complementary" ->
            <<pushBase, pushCreate(h + 180 * Deg)>>
      [] type = "split-complementary" ->
            <<pushBase, pushCreate(h + 150 * Deg), pushCreate(h + 210 * Deg)>>
      [] type = "triadic" ->
            <<pushBase, pushCreate(h + 120 * Deg), pushCreate(h + 240 * Deg)>>
      [] type = "tetradic" ->
            <<pushBase, pushCreate(h + 90 * Deg), pushCreate(h + 180 * Deg),
              pushCreate(h + 280 * Deg)>>
      [] type = "analogous" ->
            <<pushCreate(h - spread * Deg * 2), pushCreate(h - spread * Deg), pushBase,
              pushCreate(h + spread * Deg), pushCreate(h + spread * Deg * 2)>>
      [] type = "golden-ratio" ->
            [i \in 1..count |-> pushCreate(h + goldenTimes(i - 1))]
      [] OTHER -> <<>>

\* the switch of generateHarmonyOklch / generateHarmonyHsl (the same in both): the
\* pushes it makes, in order; spread is in degrees
harmonySwitch(h, type, count, spread) ==
    CASE type = "complementary" ->
            <<pushBase, pushCreate(h + 180 * Deg)>>
      [] type = "split-complementary" ->
            <<pushBase, pushCreate(h + 150 * Deg), pushCreate(h + 210 * Deg)>>
      [] type = "triadic" ->
            <<pushBase, pushCreate(h + 120 * Deg), pushCreate(h + 240 * Deg)>>
      [] type = "tetradic" ->
            <<pushBase, pushCreate(h + 90 * Deg), pushCreate(h + 180 * Deg),
              pushCreate(h + 270 * Deg)>>
      [] type = "analogous" ->
            <<pushCreate(h - spread * Deg * 2), pushCreate(h - spread * Deg), pushBase,
              pushCreate(h + spread * Deg), pushCreate(h + spread * Deg * 2)>>
      [] type = "golden-ratio" ->
            [i \in 1..count |-> pushCreate(h + goldenTimes(i - 1))]
      [] OTHER -> <<>>

\* createColor never returns null, so the final filter keeps every entry
generateHarmonyOklch(baseColor, type, count, spread) ==
    LET l == baseColor.oklch.l
        c == baseColor.oklch.c
        h == baseColor.oklch.h
        createColor(hue) == fromOklch(l, c, normalizeHue(hue))
        pushes == harmonySwitch(h, type, count, spread)
    IN  [i \in DOMAIN pushes |->
            IF pushes[i].base THEN baseColor ELSE createColor(pushes[i].hue)]

\* generateHarmonyHsl that hands s and l to fromHsl in the wrong order
generateHarmonyHslSwapped(baseColor, type, count, spread) ==
    LET h == baseColor.hsl.h
        s == baseColor.hsl.s
        l == baseColor.hsl.l
        createColor(hue) == fromHsl(normalizeHue(hue), l, s)
        pushes == harmonySwitch(h, type, count, spread)
    IN  [i \in DOMAIN pushes |->
            IF pushes[i].base THEN baseColor ELSE createColor(pushes[i].hue)]

generateHarmonyHsl(baseColor, type, count, spread) ==
    LET h == baseColor.hsl.h
        s == baseColor.hsl.s
        l == baseColor.hsl.l
        createColor(hue) == fromHsl(normalizeHue(hue), s, l)
        pushes == harmonySwitch(h, type, count, spread)
    IN  [i \in DOMAIN pushes |->
            IF pushes[i].base THEN baseColor ELSE createColor(pushes[i].hue)]

\* const { type, count = 5, spread = 30 } = config
generateHarmony(baseColor, config, space) ==
    LET count  == IF config.count = Undefined THEN 5 ELSE config.count
        spread == IF config.spread = Undefined THEN 30 ELSE config.spread
    IN  IF space = "oklch"
        THEN generateHarmonyOklch(baseColor, config.type, count, spread)
        ELSE generateHarmonyHsl(baseColor, config.type, count, spread)

----------------------------------------------------------------------------
(* image-colors.ts.  ImageData is the sequence of its RGBA pixels         *)
(* <<r, g, b, a>>; an RGB value is [r, g, b]; a Cluster is [center, count]. *)

\* Math.round(sum / n) for sum >= 0, n > 0
RoundDiv(sum, n) == (2 * sum + n) \div (2 * n)

RECURSIVE SumSeq(_)
SumSeq(q) == IF q = <<>> THEN 0 ELSE Head(q) + SumSeq(Tail(q))

\* maxSize of loadImageData: the canvas is at most maxSize x maxSize pixels
maxSize == 200

\* sampleRate = Math.max(1, Math.floor(data.length / 4 / 10000)), data.length = 4 bytes per pixel
sampleRate(length) == Max(1, (length \div 4) \div 10000)

\* the values i takes in `for (let i = 0; i < data.length; i += 4 * sampleRate)`
loopOffsets(length) ==
    { 4 * sampleRate(length) * n : n \in 0..((length - 1) \div (4 * sampleRate(length))) }

\* getPixelsFromImageData with `a <= 128` for `a < 128`
getPixelsFromImageDataAlphaOff(data) ==
    LET kept == SelectSeq(data, LAMBDA p :
                    /\ ~(p[4] <= 128)
                    /\ ~(p[1] + p[2] + p[3] > 3 * 250 \/ p[1] + p[2] + p[3] < 3 * 5))
    IN  [j \in DOMAIN kept |-> [r |-> kept[j][1], g |-> kept[j][2], b |-> kept[j][3]]]

\* the pixels at the loop's offsets, skipping alpha < 128 and brightness (r+g+b)/3
\* above 250 or below 5
getPixelsFromImageData(data) ==
    LET sampled    == { (i \div 4) + 1 : i \in loopOffsets(4 * Len(data)) }
        all        == [j \in 1..Len(data) |-> [r |-> data[j][1], g |-> data[j][2],
                                                b |-> data[j][3], a |-> data[j][4], at |-> j]]
        kept       == SelectSeq(all, LAMBDA p :
                          /\ p.at \in sampled
                          /\ ~(p.a < 128)
                          /\ ~(p.r + p.g + p.b > 3 * 250 \/ p.r + p.g + p.b < 3 * 5))
    IN  [j \in DOMAIN kept |-> [r |-> kept[j].r, g |-> kept[j].g, b |-> kept[j].b]]

\* the square of colorDistance(a, b); the code compares distances (the order of
\* the squares) and uses minDist * minDist as the seeding weight
colorDistanceSq(a, b) ==
    (a.r - b.r) * (a.r - b.r) + (a.g - b.g) * (a.g - b.g) + (a.b - b.b) * (a.b - b.b)

\* the index of the nearest centroid: the first one at the least distance
nearestIdx(pixel, centroids) ==
    CHOOSE i \in DOMAIN centroids :
        /\ \A j \in DOMAIN centroids :
              colorDistanceSq(pixel, centroids[i]) <= colorDistanceSq(pixel, centroids[j])
        /\ \A j \in 1..(i - 1) :
              colorDistanceSq(pixel, centroids[j]) > colorDistanceSq(pixel, centroids[i])

\* k-means++: the pixel indices one seeding step can pick, given the centroids so far.
\* random = Math.random() * totalDist lies in [0, totalDist); the scan picks the first
\* pixel whose running weight reaches it: pixel 0 when random is 0, otherwise a pixel
\* of positive weight
nextSeedChoices(pixels, centroids) ==
    {1} \cup { i \in DOMAIN pixels :
                 \A j \in DOMAIN centroids : colorDistanceSq(pixels[i], centroids[j]) > 0 }

RECURSIVE seedRuns(_, _, _)
seedRuns(pixels, k, chosen) ==
    IF Len(chosen) >= k THEN {chosen}
    ELSE UNION { seedRuns(pixels, k, Append(chosen, i)) :
                   i \in nextSeedChoices(pixels, [j \in DOMAIN chosen |-> pixels[chosen[j]]]) }

\* the outcomes of the random seeding: the pixel indices of the k initial centroids
\* (the first uniform over the pixels); no seeding when k-means is skipped
kMeansSeeds(pixels, k) ==
    IF Len(pixels) = 0 \/ Len(pixels) <= k THEN {<<>>}
    ELSE UNION { seedRuns(pixels, k, <<i>>) : i \in DOMAIN pixels }

\* lloydStep that moves the centroid of an empty cluster to black
lloydStepResetEmpty(pixels, centroids, k) ==
    LET clusters == [i \in 1..k |-> SelectSeq(pixels, LAMBDA p : nearestIdx(p, centroids) = i)]
    IN  [i \in 1..k |->
            IF Len(clusters[i]) > 0
            THEN LET m == clusters[i]
                 IN  [r |-> RoundDiv(SumSeq([j \in DOMAIN m |-> m[j].r]), Len(m)),
                      g |-> RoundDiv(SumSeq([j \in DOMAIN m |-> m[j].g]), Len(m)),
                      b |-> RoundDiv(SumSeq([j \in DOMAIN m |-> m[j].b]), Len(m))]
            ELSE [r |-> 0, g |-> 0, b |-> 0]]

\* one Lloyd iteration: assign every pixel to its nearest centroid, then move each
\* centroid with members to their rounded per-channel mean
lloydStep(pixels, centroids, k) ==
    LET clusters == [i \in 1..k |-> SelectSeq(pixels, LAMBDA p : nearestIdx(p, centroids) = i)]
    IN  [i \in 1..k |->
            IF Len(clusters[i]) > 0
            THEN LET m == clusters[i]
                 IN  [r |-> RoundDiv(SumSeq([j \in DOMAIN m |-> m[j].r]), Len(m)),
                      g |-> RoundDiv(SumSeq([j \in DOMAIN m |-> m[j].g]), Len(m)),
                      b |-> RoundDiv(SumSeq([j \in DOMAIN m |-> m[j].b]), Len(m))]
            ELSE centroids[i]]

\* `iterations` Lloyd steps; a step that moves no centroid is repeated unchanged by
\* all the remaining ones, so the recursion stops there
RECURSIVE lloyd(_, _, _, _)
lloyd(pixels, centroids, k, iterations) ==
    IF iterations <= 0 THEN centroids
    ELSE LET moved == lloydStep(pixels, centroids, k)
         IN  IF moved = centroids THEN centroids
             ELSE lloyd(pixels, moved, k, iterations - 1)

\* the final assignment: one cluster per centroid with its member count
finalClusters(pixels, centroids) ==
    [i \in DOMAIN centroids |->
        [center |-> centroids[i],
         count  |-> Cardinality({ j \in DOMAIN pixels : nearestIdx(pixels[j], centroids) = i })]]

\* kMeansClustering whose one-cluster-per-pixel branch starts every count at 0
kMeansClusteringZeroCount(pixels, k, iterations, seeds) ==
    IF Len(pixels) = 0 THEN <<>>
    ELSE IF Len(pixels) <= k
    THEN [j \in DOMAIN pixels |-> [center |-> pixels[j], count |-> 0]]
    ELSE LET centroids == lloyd(pixels, [j \in DOMAIN seeds |-> pixels[seeds[j]]], k, iterations)
         IN  SelectSeq(finalClusters(pixels, centroids), LAMBDA c : c.count > 0)

\* kMeansClustering that answers an empty pixel list with one black cluster
kMeansClusteringBlack(pixels, k, iterations, seeds) ==
    IF Len(pixels) = 0 THEN << [center |-> [r |-> 0, g |-> 0, b |-> 0], count |-> 0] >>
    ELSE IF Len(pixels) <= k
    THEN [j \in DOMAIN pixels |-> [center |-> pixels[j], count |-> 1]]
    ELSE LET centroids == lloyd(pixels, [j \in DOMAIN seeds |-> pixels[seeds[j]]], k, iterations)
         IN  SelectSeq(finalClusters(pixels, centroids), LAMBDA c : c.count > 0)

\* kMeansClustering(pixels, k, iterations = 10), for the seeding outcome `seeds`
kMeansClustering(pixels, k, iterations, seeds) ==
    IF Len(pixels) = 0 THEN <<>>
    ELSE IF Len(pixels) <= k
    THEN [j \in DOMAIN pixels |-> [center |-> pixels[j], count |-> 1]]
    ELSE LET centroids == lloyd(pixels, [j \in DOMAIN seeds |-> pixels[seeds[j]]], k, iterations)
         IN  SelectSeq(finalClusters(pixels, centroids), LAMBDA c : c.count > 0)

\* clusters.sort(...) left out: the clusters stay in k-means order
sortByCountOff(clusters) == clusters

RECURSIVE insertByCount(_, _)
insertByCount(sorted, c) ==
    IF sorted = <<>> THEN <<c>>
    ELSE IF Head(sorted).count >= c.count
         THEN <<Head(sorted)>> \o insertByCount(Tail(sorted), c)
         ELSE <<c>> \o sorted

RECURSIVE sortRec(_, _)
sortRec(done, rest) ==
    IF rest = <<>> THEN done ELSE sortRec(insertByCount(done, Head(rest)), Tail(rest))

\* clusters.sort((a, b) => b.count - a.count): stable, largest count first
sortByCount(clusters) == sortRec(<<>>, clusters)

\* rgbToHex: each channel limited to [0, 255]; the string "#rrggbb" is its three channels
rgbToHex(rgb) ==
    [r |-> Max(0, Min(255, rgb.r)), g |-> Max(0, Min(255, rgb.g)), b |-> Max(0, Min(255, rgb.b))]

\* the colour string "#rrggbb" as parseColor takes it: culori's parse and OKLCH
\* converter as a stand-in (lightness from the channel mean, hue from the usual
\* hexagon formula, chroma as the channel spread relative to the gamut boundary)
hexLiteral(hex) ==
    LET mx  == Max(hex.r, Max(hex.g, hex.b))
        mn  == Min(hex.r, Min(hex.g, hex.b))
        l   == ((hex.r + hex.g + hex.b) * LOne) \div (3 * 255)
        hh  == IF mx = mn THEN NaN
               ELSE IF mx = hex.r THEN ((60 * Deg * (hex.g - hex.b)) \div (mx - mn)) % Turn
               ELSE IF mx = hex.g THEN (120 * Deg + (60 * Deg * (hex.b - hex.r)) \div (mx - mn)) % Turn
               ELSE (240 * Deg + (60 * Deg * (hex.r - hex.g)) \div (mx - mn)) % Turn
        h   == IF hh = NaN THEN NaN ELSE (hh + HueShift) % Turn
        c   == IF hh = NaN THEN 0 ELSE ((mx - mn) * MaxChroma(l, h)) \div 255
    IN  [valid |-> TRUE, l |-> l, c |-> c, h |-> h]

\* the synchronous part of extractColorsFromImage, after loadImageData has resolved:
\* [clusters as kMeansClustering returns them, clusters after the sort, colors]
extractColorsFromImage(data, colorCount, seeds) ==
    LET pixels   == getPixelsFromImageData(data)
        clusters == kMeansClustering(pixels, colorCount, 10, seeds)
        sorted   == sortByCount(clusters)
        parsed   == [j \in DOMAIN sorted |-> parseColor(hexLiteral(rgbToHex(sorted[j].center)))]
    IN  [clusters |-> clusters,
         sorted   |-> SelectSeq(sorted, LAMBDA c : parseColor(hexLiteral(rgbToHex(c.center))) # null),
         colors   |-> SelectSeq(parsed, LAMBDA c : c # null)]

----------------------------------------------------------------------------
(* image-colors.ts: the arithmetic of the k-means++ seeding.  The weights  *)
(* distances[i], their sum totalDist and the running `random` are doubles, *)
(* and whether the scan reaches random <= 0 depends on how the additions   *)
(* round.  A double is modelled as a binary floating-point number of       *)
(* FloatBits significant bits, round to nearest, ties to even; a value is  *)
(* carried as an integer count of FloatUnit-ths.                           *)

FloatBits == 5

RECURSIVE pow2(_)
pow2(n) == IF n <= 0 THEN 1 ELSE 2 * pow2(n - 1)

FloatUnit == pow2(FloatBits)

RECURSIVE bitLength(_)
bitLength(x) == IF x <= 0 THEN 0 ELSE 1 + bitLength(x \div 2)

\* the nearest number of FloatBits significant bits to x >= 0; `sticky` says
\* the exact value lies above x (by less than one unit of x)
roundUp(x, sticky) ==
    IF bitLength(x) <= FloatBits THEN x
    ELSE LET step == pow2(bitLength(x) - FloatBits)
             q    == x \div step
             r    == x % step
             up   == \/ 2 * r > step
                     \/ 2 * r = step /\ (sticky \/ q % 2 = 1)
         IN  (IF up THEN q + 1 ELSE q) * step

roundFloat(x) == IF x < 0 THEN -roundUp(-x, FALSE) ELSE roundUp(x, FALSE)

floatAdd(a, b) == roundFloat(a + b)
floatMul(a, b) == roundFloat(a * b) \div FloatUnit

RECURSIVE sqrtFloor(_, _, _)
sqrtFloor(m, lo, hi) ==
    IF lo >= hi THEN lo
    ELSE LET mid == (lo + hi + 1) \div 2
         IN  IF mid * mid <= m THEN sqrtFloor(m, mid, hi) ELSE sqrtFloor(m, lo, mid - 1)

\* Math.sqrt(n) for an integer n >= 0: the correctly rounded root
MathSqrt(n) ==
    LET m == n * FloatUnit * FloatUnit
        s == sqrtFloor(m, 0, 46340)
    IN  roundUp(s, s * s # m)

\* colorDistance(a, b) = Math.sqrt(Math.pow(..) + Math.pow(..) + Math.pow(..));
\* the sum of the three squares is an exact integer
colorDistance(a, b) == MathSqrt(colorDistanceSq(a, b))

MinOver(S) == CHOOSE x \in S : \A y \in S : x <= y

\* distances: minDist * minDist per pixel, minDist the least colorDistance to a centroid
seedDistances(pixels, centroids) ==
    [i \in DOMAIN pixels |->
        LET minDist == MinOver({ colorDistance(pixels[i], centroids[j]) : j \in DOMAIN centroids })
        IN  floatMul(minDist, minDist)]

\* distances.reduce((a, b) => a + b, 0)
RECURSIVE reduceAdd(_, _, _)
reduceAdd(distances, i, acc) ==
    IF i > Len(distances) THEN acc
    ELSE reduceAdd(distances, i + 1, floatAdd(acc, distances[i]))

\* the for loop of the seeding: the index (from 1) of the pixel it pushes, 0 when
\* it ends without `random <= 0`
RECURSIVE seedScanFrom(_, _, _)
seedScanFrom(distances, i, random) ==
    IF i > Len(distances) THEN 0
    ELSE LET r == floatAdd(random, -distances[i])
         IN  IF r <= 0 THEN i ELSE seedScanFrom(distances, i + 1, r)

\* one iteration of `while (centroids.length < k)` for the value `rand` of
\* Math.random(), in FloatUnit-ths
seedScan(pixels, centroids, rand) ==
    LET distances == seedDistances(pixels, centroids)
        totalDist == reduceAdd(distances, 1, 0)
    IN  seedScanFrom(distances, 1, floatMul(rand, totalDist))

\* values of Math.random(): 0, 1/2 and the largest double below 1
RandomDraws == {0, FloatUnit \div 2, FloatUnit - 1}

\* what one iteration of the seeding loop can push: a pixel nextSeedChoices allows
\* (any Math.random() in exact arithmetic), or nothing (0) when the rounded scan
\* of one of the draws ends above 0
seedIteration(pixels, centroids) ==
    nextSeedChoices(pixels, centroids)
        \cup { i \in { seedScan(pixels, centroids, rand) : rand \in RandomDraws } : i = 0 }

\* iterations: number = 10, the default extractColorsFromImage leaves in place
defaultIterations == 10

----------------------------------------------------------------------------
(* colorful.ts: generateColorful.  A ColorfulConfig is [method, count,     *)
(* seed, shuffle, fixedLightness, fixedChroma, fixedSaturation,            *)
(* fixedLightnessHsl], an option left out being Undefined.  A number the   *)
(* PRNG holds or returns is carried in 1/1000; the flag shuffle is 1 for   *)
(* true and 0 for false.                                                   *)

ColorfulMethods ==
    {"spectrum", "vibrant", "pastel", "dark", "neon", "warm", "cool", "earth", "random"}

\* x ?? d
Nullish(x, d) == IF x = Undefined THEN d ELSE x

\* Math.sin(s * 9999) * 10000 for s in 1/1000, the result in 1/1000.  Math.sin is a
\* stand-in: the angle is reduced modulo 2 pi (6.283) and the sine taken by
\* Bhaskara's rational approximation 16x(pi - x) / (5 pi^2 - 4x(pi - x))
sinTimes10000(s) ==
    LET angle == ((s % 6283) * (9999 % 6283)) % 6283      \* in 1/1000 radian, in [0, 2 pi)
        x     == IF angle <= 3142 THEN angle ELSE angle - 3142
        p     == x * (3142 - x)
        num   == 16 * p
        den   == (5 * 3142 * 3142 - 4 * p) \div 200
        whole == (num * 50) \div den
        part  == (((num * 50) % den) * 1000) \div den
        mag   == whole * 1000 + part
    IN  IF angle <= 3142 THEN mag ELSE -mag

\* the closure seededRandom(seed) returns, called once in state s:
\* s = Math.sin(s * 9999) * 10000; return s - Math.floor(s)
randomNext(s) == sinTimes10000(s)
randomValue(s) == randomNext(s) % 1000

\* let s = seed
seededRandom(seed) == seed * 1000

\* the default of the destructuring applied even to a seed that is given
seedOfClock(config, now) == now

\* const { seed = Date.now() } = config
seedOf(config, now) == IF config.seed = Undefined THEN now ELSE config.seed

\* i * hueStep for hueStep = range / steps (range in degrees), to 1/1000 degree
hueAt(i, range, steps) == (i * range * Deg) \div steps

\* the colour of one loop iteration: fromOklch(l, c, h) or fromHsl(h, s, l) with
\* the fixed parameters of the config or the defaults of the method
styledColor(h, config, colorSpace, defaults) ==
    IF colorSpace = "oklch"
    THEN fromOklch(Nullish(config.fixedLightness, defaults.oklch.l),
                   Nullish(config.fixedChroma, defaults.oklch.c), h)
    ELSE fromHsl(h, Nullish(config.fixedSaturation, defaults.hsl.s),
                    Nullish(config.fixedLightnessHsl, defaults.hsl.l))

\* count as the number of loop iterations of `for (let i = 0; i < count; i++)`
loopCount(count) == IF count > 0 THEN count ELSE 0

\* `if (color) results.push(color)` over the colours of the loop
pushAll(colors) == SelectSeq(colors, LAMBDA c : c # null)

generateStyled(count, config, colorSpace, defaults) ==
    pushAll([n \in 1..loopCount(count) |->
                styledColor(normalizeHue(hueAt(n - 1, 360, count)), config, colorSpace, defaults)])

SpectrumDefaults == [oklch |-> [l |-> 650, c |-> 180], hsl |-> [s |-> 7500, l |-> 5500]]
VibrantDefaults  == [oklch |-> [l |-> 650, c |-> 220], hsl |-> [s |-> 8500, l |-> 5500]]
PastelDefaults   == [oklch |-> [l |-> 880, c |-> 80],  hsl |-> [s |-> 5000, l |-> 8500]]
DarkDefaults     == [oklch |-> [l |-> 350, c |-> 120], hsl |-> [s |-> 6000, l |-> 2500]]
NeonDefaults     == [oklch |-> [l |-> 800, c |-> 280], hsl |-> [s |-> 10000, l |-> 6000]]
WarmDefaults     == [oklch |-> [l |-> 650, c |-> 180], hsl |-> [s |-> 7500, l |-> 5500]]
CoolDefaults     == [oklch |-> [l |-> 600, c |-> 150], hsl |-> [s |-> 6500, l |-> 5000]]
EarthDefaults    == [oklch |-> [l |-> 500, c |-> 80],  hsl |-> [s |-> 3500, l |-> 4000]]

generateSpectrum(count, config, colorSpace) ==
    generateStyled(count, config, colorSpace, SpectrumDefaults)

RECURSIVE insertByHue(_, _)
insertByHue(sorted, c) ==
    IF sorted = <<>> THEN <<c>>
    ELSE IF Head(sorted).oklch.h <= c.oklch.h
         THEN <<Head(sorted)>> \o insertByHue(Tail(sorted), c)
         ELSE <<c>> \o sorted

RECURSIVE sortByHueRec(_, _)
sortByHueRec(done, rest) ==
    IF rest = <<>> THEN done ELSE sortByHueRec(insertByHue(done, Head(rest)), Tail(rest))

\* [...colors].sort((a, b) => a.oklch.h - b.oklch.h): stable, ascending OKLCH hue
sortByHue(colors) == sortByHueRec(<<>>, colors)

\* warmHue that leaves the hues from 60 up where they are
warmHueNoShift(i, count) ==
    LET h == hueAt(i, 140, count)
    IN  normalizeHue(IF h < 60 * Deg THEN 300 * Deg + h ELSE h)

\* the hue generateWarmSpectrum asks for at index i: h < 60 ? 300 + h : h - 60
warmHue(i, count) ==
    LET h == hueAt(i, 140, count)
    IN  normalizeHue(IF h < 60 * Deg THEN 300 * Deg + h ELSE h - 60 * Deg)

generateWarmSpectrum(count, config, colorSpace) ==
    sortByHue(pushAll([n \in 1..loopCount(count) |->
                          styledColor(warmHue(n - 1, count), config, colorSpace, WarmDefaults)]))

\* startHue + i * hueStep for hueStep = (endHue - startHue) / (count - 1 || 1)
rangeHue(i, count, startHue, endHue) ==
    normalizeHue(startHue * Deg
                 + hueAt(i, endHue - startHue, IF count - 1 = 0 THEN 1 ELSE count - 1))

generateCoolSpectrum(count, config, colorSpace) ==
    pushAll([n \in 1..loopCount(count) |->
                styledColor(rangeHue(n - 1, count, 120, 280), config, colorSpace, CoolDefaults)])

generateEarthSpectrum(count, config, colorSpace) ==
    pushAll([n \in 1..loopCount(count) |->
                styledColor(rangeHue(n - 1, count, 20, 90), config, colorSpace, EarthDefaults)])

\* generateRandom from PRNG state s: every colour draws its hue, then the
\* lightness and chroma (or saturation and lightness) that are not fixed
RECURSIVE generateRandomFrom(_, _, _, _)
generateRandomFrom(n, s, config, colorSpace) ==
    IF n <= 0 THEN <<>>
    ELSE LET s1 == randomNext(s)
             h  == (randomValue(s) * 360 * Deg) \div 1000
             firstFixed  == IF colorSpace = "oklch" THEN config.fixedLightness ELSE config.fixedSaturation
             secondFixed == IF colorSpace = "oklch" THEN config.fixedChroma ELSE config.fixedLightnessHsl
             s2 == IF firstFixed = Undefined THEN randomNext(s1) ELSE s1
             r2 == randomValue(s1)
             s3 == IF secondFixed = Undefined THEN randomNext(s2) ELSE s2
             r3 == randomValue(s2)
             color ==
                 IF colorSpace = "oklch"
                 THEN fromOklch(Nullish(config.fixedLightness, 400 + (r2 * 400) \div 1000),
                                Nullish(config.fixedChroma, 100 + (r3 * 180) \div 1000), h)
                 ELSE fromHsl(h, Nullish(config.fixedSaturation, 5000 + (r2 * 4500) \div 1000),
                                 Nullish(config.fixedLightnessHsl, 3500 + (r3 * 4000) \div 1000))
         IN  <<color>> \o generateRandomFrom(n - 1, s3, config, colorSpace)

generateRandom(count, s, config, colorSpace) ==
    pushAll(generateRandomFrom(loopCount(count), s, config, colorSpace))

\* swap that writes result[i] only
swapCopy(result, i, j) ==
    [n \in DOMAIN result |-> IF n = i + 1 THEN result[j + 1] ELSE result[n]]

\* [result[i], result[j]] = [result[j], result[i]] (indices from 0)
swap(result, i, j) ==
    [n \in DOMAIN result |->
        IF n = i + 1 THEN result[j + 1] ELSE IF n = j + 1 THEN result[i + 1] ELSE result[n]]

\* shuffleArray from index i down to 1, from PRNG state s: [result, swaps], swaps
\* the pairs <<i, j>> in the order they were made
RECURSIVE shuffleFrom(_, _, _, _)
shuffleFrom(result, i, s, swaps) ==
    IF ~(i > 0) THEN [result |-> result, swaps |-> swaps]
    ELSE LET j == (randomValue(s) * (i + 1)) \div 1000
         IN  shuffleFrom(swap(result, i, j), i - 1, randomNext(s), Append(swaps, <<i, j>>))

shuffleArray(arr, s) == shuffleFrom(arr, Len(arr) - 1, s, <<>>)

\* the switch of generateColorful
colorfulSwitch(method, count, s, config, colorSpace) ==
    CASE method = "spectrum" -> generateSpectrum(count, config, colorSpace)
      [] method = "vibrant"  -> generateStyled(count, config, colorSpace, VibrantDefaults)
      [] method = "pastel"   -> generateStyled(count, config, colorSpace, PastelDefaults)
      [] method = "dark"     -> generateStyled(count, config, colorSpace, DarkDefaults)
      [] method = "neon"     -> generateStyled(count, config, colorSpace, NeonDefaults)
      [] method = "warm"     -> generateWarmSpectrum(count, config, colorSpace)
      [] method = "cool"     -> generateCoolSpectrum(count, config, colorSpace)
      [] method = "earth"    -> generateEarthSpectrum(count, config, colorSpace)
      [] method = "random"   -> generateRandom(count, s, config, colorSpace)
      [] OTHER               -> generateSpectrum(count, config, colorSpace)

\* generateColorful that shuffles every method but random, whatever the shuffle flag
generateColorfulAlwaysShuffle(config, colorSpace, now) ==
    LET s        == seededRandom(seedOf(config, now))
        colors   == colorfulSwitch(config.method, config.count, s, config, colorSpace)
    IN  IF config.method # "random"
        THEN LET shuffled == shuffleArray(colors, s)
             IN  [colors |-> shuffled.result, swaps |-> shuffled.swaps]
        ELSE [colors |-> colors, swaps |-> <<>>]

\* generateColorful(config, colorSpace) called when Date.now() is `now`:
\* [colors, swaps], swaps being the swaps of the shuffle when there was one
generateColorful(config, colorSpace, now) ==
    LET shuffle == Nullish(config.shuffle, 0)
        s       == seededRandom(seedOf(config, now))
        colors  == colorfulSwitch(config.method, config.count, s, config, colorSpace)
    IN  IF shuffle = 1 /\ config.method # "random"
        THEN LET shuffled == shuffleArray(colors, s)
             IN  [colors |-> shuffled.result, swaps |-> shuffled.swaps]
        ELSE [colors |-> colors, swaps |-> <<>>]

----------------------------------------------------------------------------
(* variations.ts: generateVariations.  The position of colour i is         *)
(* t = i / (count - 1 || 1), carried as the fraction tn/td = i/(count-1||1); *)
(* every curve is evaluated as the real expression of the source and cut   *)
(* to the unit of its result.                                             *)

VariationTypes ==
    {"monochromatic", "shades", "tints", "tones", "temperature",
     "saturation-gradient", "lightness-gradient"}

\* count - 1 || 1
stepsOf(count) == IF count - 1 = 0 THEN 1 ELSE count - 1

\* the colours of `for (let i = 0; i < count; i++) { ...; if (color) results.push(color) }`
\* where colorAt(i) is the colour of iteration i
variationLoop(count, colorAt) ==
    pushAll([n \in 1..loopCount(count) |-> colorAt[n - 1]])

generateMonochromatic(baseColor, count, colorSpace) ==
    LET td == stepsOf(count)
    IN  variationLoop(count, [i \in 0..(loopCount(count) - 1) |->
            IF colorSpace = "oklch"
            THEN LET l == 150 + (i * 750) \div td
                     chromaMultiplier == 1000 - (2 * (l - 500) * (l - 500)) \div 1000
                     adjustedC == (baseColor.oklch.c * chromaMultiplier) \div 1000
                 IN  fromOklch(l, adjustedC, baseColor.oklch.h)
            ELSE LET l == 1000 + (i * 8000) \div td
                 IN  fromHsl(baseColor.hsl.h, (baseColor.hsl.s * 9) \div 10, l)])

\* generateShades without the floors Math.max(0.05, newL) and Math.max(5, newL)
generateShadesNoFloor(baseColor, count, colorSpace) ==
    LET td == stepsOf(count)
    IN  variationLoop(count, [i \in 0..(loopCount(count) - 1) |->
            IF colorSpace = "oklch"
            THEN LET newL == (baseColor.oklch.l * (100 * td - 85 * i)) \div (100 * td)
                     newC == (baseColor.oklch.c * (10 * td - 3 * i)) \div (10 * td)
                 IN  fromOklch(newL, newC, baseColor.oklch.h)
            ELSE LET newL == (baseColor.hsl.l * (10 * td - 9 * i)) \div (10 * td)
                 IN  fromHsl(baseColor.hsl.h, baseColor.hsl.s, newL)])

generateShades(baseColor, count, colorSpace) ==
    LET td == stepsOf(count)
    IN  variationLoop(count, [i \in 0..(loopCount(count) - 1) |->
            IF colorSpace = "oklch"
            THEN LET newL == (baseColor.oklch.l * (100 * td - 85 * i)) \div (100 * td)
                     newC == (baseColor.oklch.c * (10 * td - 3 * i)) \div (10 * td)
                 IN  fromOklch(Max(50, newL), newC, baseColor.oklch.h)
            ELSE LET newL == (baseColor.hsl.l * (10 * td - 9 * i)) \div (10 * td)
                 IN  fromHsl(baseColor.hsl.h, baseColor.hsl.s, Max(500, newL))])

generateTints(baseColor, count, colorSpace) ==
    LET td == stepsOf(count)
    IN  variationLoop(count, [i \in 0..(loopCount(count) - 1) |->
            IF colorSpace = "oklch"
            THEN LET newL == baseColor.oklch.l + ((970 - baseColor.oklch.l) * i) \div td
                     newC == (baseColor.oklch.c * (10 * td - 7 * i)) \div (10 * td)
                 IN  fromOklch(newL, newC, baseColor.oklch.h)
            ELSE LET newL == baseColor.hsl.l + ((9500 - baseColor.hsl.l) * i) \div td
                     newS == (baseColor.hsl.s * (2 * td - i)) \div (2 * td)
                 IN  fromHsl(baseColor.hsl.h, newS, newL)])

generateTones(baseColor, count, colorSpace) ==
    LET td == stepsOf(count)
    IN  variationLoop(count, [i \in 0..(loopCount(count) - 1) |->
            IF colorSpace = "oklch"
            THEN LET newC == (baseColor.oklch.c * (10 * td - 9 * i)) \div (10 * td)
                 IN  fromOklch(baseColor.oklch.l, newC, baseColor.oklch.h)
            ELSE LET newS == (baseColor.hsl.s * (100 * td - 95 * i)) \div (100 * td)
                 IN  fromHsl(baseColor.hsl.h, newS, baseColor.hsl.l)])

generateTemperature(baseColor, count, colorSpace) ==
    LET td == stepsOf(count)
    IN  variationLoop(count, [i \in 0..(loopCount(count) - 1) |->
            LET h == 240 * Deg - (i * 210 * Deg) \div td
            IN  IF colorSpace = "oklch"
                THEN fromOklch(baseColor.oklch.l, (baseColor.oklch.c * 8) \div 10, h)
                ELSE fromHsl(h, baseColor.hsl.s, baseColor.hsl.l)])

generateSaturationGradient(baseColor, count, colorSpace) ==
    LET td == stepsOf(count)
    IN  variationLoop(count, [i \in 0..(loopCount(count) - 1) |->
            IF colorSpace = "oklch"
            THEN fromOklch(baseColor.oklch.l, 10 + (i * 280) \div td, baseColor.oklch.h)
            ELSE fromHsl(baseColor.hsl.h, 500 + (i * 9000) \div td, baseColor.hsl.l)])

generateLightnessGradient(baseColor, count, colorSpace) ==
    LET td == stepsOf(count)
    IN  variationLoop(count, [i \in 0..(loopCount(count) - 1) |->
            IF colorSpace = "oklch"
            THEN LET l == 100 + (i * 850) \div td
                     chromaMultiplier == 1000 - (400 * (l - 550) * (l - 550)) \div 302500
                     adjustedC == (baseColor.oklch.c * chromaMultiplier) \div 1000
                 IN  fromOklch(l, adjustedC, baseColor.oklch.h)
            ELSE fromHsl(baseColor.hsl.h, baseColor.hsl.s, 500 + (i * 9000) \div td)])

generateVariations(baseColor, config, colorSpace) ==
    CASE config.type = "monochromatic" -> generateMonochromatic(baseColor, config.count, colorSpace)
      [] config.type = "shades" -> generateShades(baseColor, config.count, colorSpace)
      [] config.type = "tints" -> generateTints(baseColor, config.count, colorSpace)
      [] config.type = "tones" -> generateTones(baseColor, config.count, colorSpace)
      [] config.type = "temperature" -> generateTemperature(baseColor, config.count, colorSpace)
      [] config.type = "saturation-gradient" -> generateSaturationGradient(baseColor, config.count, colorSpace)
      [] config.type = "lightness-gradient" -> generateLightnessGradient(baseColor, config.count, colorSpace)
      [] OTHER -> generateMonochromatic(baseColor, config.count, colorSpace)

----------------------------------------------------------------------------
(* variations.ts: generateTonalScale.  A step is the number the caller     *)
(* gives (50..950 by default); the chroma getChromaForLightness returns is *)
(* carried in 1/1000000, so that its products by 0.3 and 1.2 are exact.    *)

DEFAULT_STEPS == <<50, 100, 200, 300, 400, 500, 600, 700, 800, 900, 950>>

\* 0.97 - (step / 1000) * 0.87
stepToLightness(step) == 970 - (step * 87) \div 100

\* Math.max(0.01, Math.min(maxChroma, baseChroma * Math.max(0.3, chromaCurve)))
getChromaForLightness(baseLightness, baseChroma, targetLightness) ==
    LET d           == targetLightness - 550
        chromaCurve == 1000 - (d * d * 1000) \div 302500
        maxChroma   == baseChroma * 1200
    IN  Max(10000, Min(maxChroma, baseChroma * Max(300, chromaCurve)))

\* the chromas generateTonalScaleOklch passes to fromOklch, one per step
tonalChromas(baseColor, steps) ==
    [n \in DOMAIN steps |->
        getChromaForLightness(baseColor.oklch.l, baseColor.oklch.c, stepToLightness(steps[n]))]

generateTonalScaleOklch(baseColor, steps) ==
    pushAll([n \in DOMAIN steps |->
                fromOklch(stepToLightness(steps[n]),
                          tonalChromas(baseColor, steps)[n] \div 1000,
                          baseColor.oklch.h)])

generateTonalScaleHsl(baseColor, steps) ==
    pushAll([n \in DOMAIN steps |->
                LET l             == Max(500, Min(9800, (1000 - steps[n]) * 10))
                    satMultiplier == 1000 - ((l - 5000) * (l - 5000) * 3) \div 250000
                    adjustedSat   == (baseColor.hsl.s * Max(200, satMultiplier)) \div 1000
                IN  fromHsl(baseColor.hsl.h, adjustedSat, l)])

generateTonalScale(baseColor, steps, colorSpace) ==
    IF colorSpace = "oklch"
    THEN generateTonalScaleOklch(baseColor, steps)
    ELSE generateTonalScaleHsl(baseColor, steps)

----------------------------------------------------------------------------
(* contrast.ts.  A luminance Y and an APCA value are carried in 1/1000.     *)
(* Math.pow(y, e) for 0 <= y <= 1 is a stand-in: tabulated at PowKnots for  *)
(* the four exponents APCAcontrast uses and linear between the knots.      *)

PowKnots == <<0, 1, 10, 50, 100, 200, 300, 400, 500, 600, 700, 800, 900, 1000>>
PowTable ==
    [e \in {56, 57, 62, 65} |->
        CASE e = 56 -> <<0, 21, 76, 187, 275, 406, 510, 599, 678, 751, 819, 883, 943, 1000>>
          [] e = 57 -> <<0, 19, 72, 181, 269, 400, 503, 593, 674, 747, 816, 881, 942, 1000>>
          [] e = 62 -> <<0, 14, 58, 156, 240, 369, 474, 567, 651, 729, 802, 871, 937, 1000>>
          [] e = 65 -> <<0, 11, 50, 143, 224, 351, 457, 551, 637, 717, 793, 865, 934, 1000>>]

\* Math.pow(y, e / 100)
MathPow(y, e) ==
    IF y >= 1000 THEN 1000
    ELSE LET k  == CHOOSE n \in 1..(Len(PowKnots) - 1) : PowKnots[n] <= y /\ y < PowKnots[n + 1]
             x0 == PowKnots[k]
             x1 == PowKnots[k + 1]
             y0 == PowTable[e][k]
             y1 == PowTable[e][k + 1]
         IN  y0 + ((y1 - y0) * (y - x0)) \div (x1 - x0)

\* sRGBtoY(color.rgb): the luminance of the displayed colour; a stand-in, the cube
\* of its OKLCH lightness
sRGBtoY(color) == (color.oklch.l * color.oklch.l * color.oklch.l) \div 1000000

\* APCAcontrast that takes the first branch whatever the polarity
APCAcontrastOnePolarity(txtY, bgY) ==
    LET txt  == Max(0, txtY)
        bg   == Max(0, bgY)
        SAPC == ((MathPow(bg, 56) - MathPow(txt, 57)) * 114) \div 100
    IN  IF SAPC < 100 THEN 0 ELSE SAPC - 27

APCAcontrast(txtY, bgY) ==
    LET txt == Max(0, txtY)
        bg  == Max(0, bgY)
    IN  IF bg > txt
        THEN LET SAPC == ((MathPow(bg, 56) - MathPow(txt, 57)) * 114) \div 100
             IN  IF SAPC < 100 THEN 0 ELSE SAPC - 27
        ELSE LET SAPC == ((MathPow(bg, 65) - MathPow(txt, 62)) * 114) \div 100
             IN  IF SAPC > -100 THEN 0 ELSE SAPC + 27

getAPCAContrast(textColor, bgColor) == APCAcontrast(sRGBtoY(textColor), sRGBtoY(bgColor)) * 100

\* the colour strings "#FFFFFF" and "#000000"
WhiteLiteral == [valid |-> TRUE, l |-> 1000, c |-> 0, h |-> NaN]
BlackLiteral == [valid |-> TRUE, l |-> 0,    c |-> 0, h |-> NaN]

\* typeof bgColor === "string": a colour string carries the field valid
isString(bgColor) == "valid" \in DOMAIN bgColor

\* const bg = typeof bgColor === "string" ? parseColor(bgColor) : bgColor
bgOf(bgColor) == IF isString(bgColor) THEN parseColor(bgColor) ELSE bgColor

getContrastTextColor(bgColor) ==
    LET bg == bgOf(bgColor)
    IN  IF bg = null THEN "#000000"
        ELSE LET white == parseColor(WhiteLiteral)
                 black == parseColor(BlackLiteral)
                 whiteContrast == Abs(getAPCAContrast(white, bg))
                 blackContrast == Abs(getAPCAContrast(black, bg))
             IN  IF whiteContrast > blackContrast THEN "#FFFFFF" ELSE "#000000"

getContrastTextColorFast(bgColor) ==
    LET bg == bgOf(bgColor)
    IN  IF bg = null THEN "#000000"
        ELSE IF bg.oklch.l < 600 THEN "#FFFFFF" ELSE "#000000"

----------------------------------------------------------------------------
(* Inputs of the model *)

ColorSpaces == {"oklch", "hsl"}

\* colour strings: #6366F1 (indigo), #FF0000 (red), a mid grey, an unparsable string
IndigoLiteral == [valid |-> TRUE, l |-> 585, c |-> 204, h |-> 277000]
RedLiteral    == [valid |-> TRUE, l |-> 628, c |-> 258, h |-> 29000]
GreyLiteral   == [valid |-> TRUE, l |-> 600, c |-> 0,   h |-> NaN]
BadLiteral    == [valid |-> FALSE, l |-> 0, c |-> 0, h |-> NaN]

\* the colours the panels hold: parseColor of a colour string, or randomColor()
\* (fromOklch of l in [0.3, 0.8], c in [0.05, 0.25], any hue)
Palette ==
    { parseColor(IndigoLiteral), parseColor(RedLiteral), parseColor(GreyLiteral),
      fromOklch(500, 250, 110000) }

ControlLists == UNION { [1..n -> Palette] : n \in 0..MaxPoints }

\* hues every 10 degrees within +-MaxTurns turns, some off the grid, some very large
WideHues ==
    { d * 10 * Deg : d \in (-36 * MaxTurns)..(36 * MaxTurns) }
    \cup { -1, 1, Turn - 1, -Turn - 1, -Turn + 1, 1000 * Turn + 7, -1000 * Turn - 7 }
UnitHues == { d * 10 * Deg : d \in 0..35 }
LerpTs   == { <<0, 1>>, <<1, 4>>, <<1, 2>>, <<3, 4>>, <<1, 1>> }

\* options of a direct generateHarmony call (spread in degrees)
CountInputs  == {Undefined} \cup ((-1)..MaxCount)
SpreadInputs == {Undefined, 0, 95}

\* HarmonicPanel: parseInt of the typed text (NaN when it is not a number), and the
\* values its sliders deliver (min 3, max 200, step 1; min 5, max 90, step 5)
TypedCounts   == {NaN, -5, 0, 13, 201}
SliderCounts  == {3, 200}
SliderSpreads == {5, 90}

\* image files: their MIME type, whether the browser can load them, and the RGBA
\* pixels of the ImageData the canvas hands back
Opaque(r, g, b) == <<r, g, b, 255>>
FileA == [name |-> "a.png", type |-> "image/png", loads |-> TRUE,
          data |-> << Opaque(200, 30, 30), Opaque(20, 20, 220), <<9, 9, 9, 0>>,
                      Opaque(20, 20, 220), Opaque(255, 255, 255), Opaque(30, 30, 210) >>]
FileB == [name |-> "b.png", type |-> "image/png", loads |-> TRUE,
          data |-> << Opaque(10, 200, 10), Opaque(10, 200, 10), Opaque(40, 40, 40),
                      <<90, 90, 90, 127>> >>]
FileT == [name |-> "t.png", type |-> "image/png", loads |-> TRUE,
          data |-> << <<120, 10, 10, 0>>, Opaque(0, 0, 0), Opaque(254, 254, 254) >>]
FileX == [name |-> "x.png", type |-> "image/png", loads |-> FALSE, data |-> <<>>]
FileN == [name |-> "n.txt", type |-> "text/plain", loads |-> FALSE, data |-> <<>>]
Files == {FileA, FileB, FileT, FileX, FileN}

\* ImageData for one run of extractColorsFromImage: every image of at most
\* MaxImagePixels pixels over pixels at the edges of the filter, and some larger ones
FilterPixels ==
    { Opaque(5, 5, 5), Opaque(4, 5, 5), Opaque(250, 250, 250), Opaque(251, 250, 250),
      <<100, 50, 0, 128>>, <<100, 50, 0, 127>>, Opaque(0, 0, 0), Opaque(255, 255, 255) }
SeedData == << Opaque(119, 133, 99), Opaque(11, 250, 75), Opaque(23, 7, 189), Opaque(127, 107, 133) >>
SameData == << Opaque(60, 60, 60), Opaque(60, 60, 60), Opaque(60, 60, 60) >>
ExImages ==
    UNION { [1..n -> FilterPixels] : n \in 0..MaxImagePixels }
    \cup { SeedData, SameData, FileA.data, FileB.data, FileT.data }
ExColorCounts == {2, 3}

\* canvas sizes width x height (both at most maxSize) as pixel counts
SampleWidths == {1, 100, maxSize}
SampleSizes  == { w * h : w \in SampleWidths, h \in 1..maxSize }

\* configs of generateColorful: every method, counts up to MaxColorfulCount, the
\* seed left out or given, the fixed parameters all left out or all given
NoOverrides  == [fixedLightness |-> Undefined, fixedChroma |-> Undefined,
                 fixedSaturation |-> Undefined, fixedLightnessHsl |-> Undefined]
AllOverrides == [fixedLightness |-> 700, fixedChroma |-> 100,
                 fixedSaturation |-> 6000, fixedLightnessHsl |-> 5000]
ColorfulSeeds == {Undefined, 7}
ColorfulConfigs ==
    { [method |-> m, count |-> n, seed |-> sd, shuffle |-> Undefined,
       fixedLightness |-> o.fixedLightness, fixedChroma |-> o.fixedChroma,
       fixedSaturation |-> o.fixedSaturation, fixedLightnessHsl |-> o.fixedLightnessHsl] :
        m \in ColorfulMethods, n \in 0..MaxColorfulCount, sd \in ColorfulSeeds,
        o \in {NoOverrides, AllOverrides} }

\* base colours of generateVariations: the colours the panels hold, and two dark ones
VariationBases == Palette \cup { fromOklch(300, 50, 20000), fromOklch(40, 0, 0) }
VariationCounts == 0..MaxVariationCount

NoFile == [name |-> "", type |-> "", loads |-> FALSE, data |-> <<>>]

\* ImagePanel: parseInt of the text typed into the count input, and slider values
TypedColorCounts  == {NaN, 25}
SliderColorCounts == {3}
ColorCounts       == {8, 2, 3, 20}     \* the values colorCount takes with these inputs

\* what extractColorsFromImage can resolve with, over the outcomes of the seeding
extractOutcomes(data, colorCount) ==
    { extractColorsFromImage(data, colorCount, seeds) :
        seeds \in kMeansSeeds(getPixelsFromImageData(data), colorCount) }

\* the same, tabulated once for the files and counts of the model
ExtractOutcomes ==
    [file \in Files |-> [k \in ColorCounts |-> extractOutcomes(file.data, k)]]

----------------------------------------------------------------------------
(* Calls of the hue functions *)

HueIdle == hueOp = "idle" /\ hueIn = [h1 |-> 0, h2 |-> 0, t |-> <<0, 1>>] /\ hueOut = <<>>

CallNormalizeHue ==
    /\ hueOp = "idle"
    /\ hueIn.h1 # NaN
    /\ hueOp' = "normalizeHue"
    /\ hueOut' = <<normalizeHue(hueIn.h1), normalizeHue(hueIn.h1 + Turn)>>
    /\ UNCHANGED hueIn

CallLerpHue ==
    /\ hueOp = "idle"
    /\ hueIn.h1 \in UnitHues \cup {NaN}
    /\ hueOp' = "lerpHue"
    /\ hueOut' = <<lerpHue(hueIn.h1, hueIn.h2, hueIn.t[1], hueIn.t[2])>>
    /\ UNCHANGED hueIn

----------------------------------------------------------------------------
(* InterpolationPanel: interpolatedColors = interpolateColors(inputColors,  *)
(* {method, steps}, colorSpace)                                            *)

InterpIdle ==
    /\ ipInputColors = <<>> /\ ipMethod = "linear" /\ ipSteps = 0
    /\ ipColorSpace = "oklch" /\ interpolatedColors = <<>> /\ ipCalled = FALSE

CallInterpolate(m) ==
    /\ ~ipCalled
    /\ ipMethod' = m
    /\ interpolatedColors' =
           interpolateColors(ipInputColors, [method |-> m, steps |-> ipSteps], ipColorSpace)
    /\ ipCalled' = TRUE
    /\ UNCHANGED <<ipInputColors, ipSteps, ipColorSpace>>

CallInterpolateLinear     == CallInterpolate("linear")
CallInterpolateCatmullRom == CallInterpolate("catmull-rom")

----------------------------------------------------------------------------
(* generateHarmony called with any config, and the HarmonicPanel *)

HarmonyIdle ==
    /\ hmBase = null /\ hmSpace = "oklch"
    /\ hmConfig = [type |-> "triadic", count |-> Undefined, spread |-> Undefined]
    /\ harmonyColors = <<>> /\ hmCalled = FALSE
    /\ harmonyType = "triadic" /\ goldenCount = 12 /\ analogousSpread = 30
    /\ hpTyped = Undefined

CallGenerateHarmony ==
    /\ ~hmCalled
    /\ \E t \in HarmonyTypes, n \in CountInputs, sp \in SpreadInputs :
          /\ hmConfig' = [type |-> t, count |-> n, spread |-> sp]
          /\ harmonyColors' = generateHarmony(hmBase, hmConfig', hmSpace)
    /\ hmCalled' = TRUE
    /\ UNCHANGED <<hmBase, hmSpace, hpanelVars>>

\* the colors memo of the panel
hpColors ==
    generateHarmony(hmBase,
                    [type |-> harmonyType, count |-> goldenCount, spread |-> analogousSpread],
                    hmSpace)

SetHarmonyType ==
    /\ \E t \in HarmonyTypes : harmonyType' = t
    /\ hpTyped' = Undefined
    /\ UNCHANGED <<goldenCount, analogousSpread, harmonyVars>>

\* the count input's onChange without Math.max / Math.min
GoldenCountInputNoClamp(raw) ==
    /\ harmonyType = "golden-ratio"
    /\ goldenCount' = (IF raw = NaN \/ raw = 0 THEN 3 ELSE raw)
    /\ hpTyped' = raw
    /\ UNCHANGED <<harmonyType, analogousSpread, harmonyVars>>

\* onChange of the count input: Math.max(3, Math.min(200, parseInt(value) || 3))
GoldenCountInput(raw) ==
    /\ harmonyType = "golden-ratio"
    /\ goldenCount' = Max(3, Min(200, IF raw = NaN \/ raw = 0 THEN 3 ELSE raw))
    /\ hpTyped' = raw
    /\ UNCHANGED <<harmonyType, analogousSpread, harmonyVars>>

GoldenCountTyped == \E raw \in TypedCounts : GoldenCountInput(raw)

GoldenCountSlider ==
    /\ harmonyType = "golden-ratio"
    /\ \E v \in SliderCounts : goldenCount' = v
    /\ hpTyped' = Undefined
    /\ UNCHANGED <<harmonyType, analogousSpread, harmonyVars>>

AnalogousSpreadSlider ==
    /\ harmonyType = "analogous"
    /\ \E v \in SliderSpreads : analogousSpread' = v
    /\ hpTyped' = Undefined
    /\ UNCHANGED <<harmonyType, goldenCount, harmonyVars>>

----------------------------------------------------------------------------
(* ImagePanel.  An entry of `extractions` is one handleExtract call: its    *)
(* source, the colorCount its closure holds, whether an earlier call was    *)
(* still awaiting when it was made, and, once the promise of                *)
(* extractColorsFromImage has settled, what it settled with.                *)

ImageIdle ==
    /\ imColors = <<>> /\ imColorCount = 8 /\ isLoading = FALSE /\ imError = ""
    /\ previewUrl = NoFile /\ pgBaseColor = parseColor(IndigoLiteral)
    /\ extractions = <<>>

Pending == { i \in DOMAIN extractions : extractions[i].status = "pending" }

\* handleExtract up to its await
handleExtract(source) ==
    /\ Len(extractions) < MaxExtractions
    /\ isLoading' = TRUE
    /\ imError' = ""
    /\ extractions' = Append(extractions,
           [source |-> source, colorCount |-> imColorCount, status |-> "pending",
            overlapped |-> (Pending # {}),
            clusters |-> <<>>, sorted |-> <<>>, colors |-> <<>>])
    /\ UNCHANGED <<imColors, imColorCount, pgBaseColor>>

HandleFileChange ==
    \E file \in Files :
        /\ previewUrl' = file
        /\ handleExtract(file)

HandleDrop ==
    \E file \in Files :
        /\ file.type \in {"image/png"}
        /\ previewUrl' = file
        /\ handleExtract(file)

\* the Re-extract button is rendered with a preview and disabled while loading
HandleReextract ==
    /\ previewUrl # NoFile
    /\ ~isLoading
    /\ handleExtract(previewUrl)
    /\ UNCHANGED previewUrl

HandleClear ==
    /\ previewUrl # NoFile
    /\ imColors' = <<>>
    /\ previewUrl' = NoFile
    /\ imError' = ""
    /\ UNCHANGED <<imColorCount, isLoading, pgBaseColor, extractions>>

SetColorCountTyped ==
    /\ \E raw \in TypedColorCounts :
          imColorCount' = Max(2, Min(20, IF raw = NaN \/ raw = 0 THEN 2 ELSE raw))
    /\ UNCHANGED <<imColors, isLoading, imError, previewUrl, pgBaseColor, extractions>>

SetColorCountSlider ==
    /\ \E v \in SliderColorCounts : imColorCount' = v
    /\ UNCHANGED <<imColors, isLoading, imError, previewUrl, pgBaseColor, extractions>>

\* loadImageData resolves; the rest of extractColorsFromImage and of handleExtract
\* (try body and finally) run without interruption
ExtractResolved ==
    \E i \in Pending :
        /\ extractions[i].source.loads
        /\ \E out \in ExtractOutcomes[extractions[i].source][extractions[i].colorCount] :
                  /\ extractions' = [extractions EXCEPT ![i].status = "resolved",
                                        ![i].clusters = out.clusters,
                                        ![i].sorted = out.sorted,
                                        ![i].colors = out.colors]
                  /\ imColors' = out.colors
                  /\ pgBaseColor' = IF Len(out.colors) > 0 THEN out.colors[1] ELSE pgBaseColor
        /\ isLoading' = FALSE
        /\ UNCHANGED <<imColorCount, imError, previewUrl>>

\* the catch block without setColors([])
ExtractRejectedKeepColors ==
    \E i \in Pending :
        /\ \E message \in (IF extractions[i].source.loads
                             THEN {"Could not get canvas context"}
                             ELSE {"Failed to load image"}) :
              imError' = message
        /\ extractions' = [extractions EXCEPT ![i].status = "rejected"]
        /\ isLoading' = FALSE
        /\ UNCHANGED <<imColors, imColorCount, previewUrl, pgBaseColor>>

\* loadImageData rejects (img.onerror, reader.onerror, or no 2d context); catch and finally
ExtractRejected ==
    \E i \in Pending :
        /\ \E message \in (IF extractions[i].source.loads
                             THEN {"Could not get canvas context"}
                             ELSE {"Failed to load image"}) :
              imError' = message
        /\ extractions' = [extractions EXCEPT ![i].status = "rejected"]
        /\ imColors' = <<>>
        /\ isLoading' = FALSE
        /\ UNCHANGED <<imColorCount, previewUrl, pgBaseColor>>

----------------------------------------------------------------------------
(* One run of extractColorsFromImage after loadImageData has resolved,     *)
(* statement by statement through kMeansClustering: the early returns, the *)
(* first centroid, the seeding loop, the Lloyd iterations, the final       *)
(* assignment, and the sort and parse of extractColorsFromImage.           *)

ExtractIdle ==
    /\ exData = <<>> /\ exColorCount = 8 /\ exPc = "idle"
    /\ exPixels = <<>> /\ exCentroids = <<>> /\ exSeeds = <<>>
    /\ exSeedIterations = 0 /\ exIter = 0 /\ exFinal = 0
    /\ exClusters = <<>> /\ exColors = <<>>

\* const pixels = getPixelsFromImageData(imageData)
ExGetPixels ==
    /\ exPc = "pixels"
    /\ exPixels' = getPixelsFromImageData(exData)
    /\ exPc' = "kmeans"
    /\ UNCHANGED <<exData, exColorCount, exCentroids, exSeeds, exSeedIterations,
                   exIter, exFinal, exClusters, exColors>>

\* kMeansClustering up to the seeding loop: the two early returns, or the first
\* centroid pixels[Math.floor(Math.random() * pixels.length)]
ExKMeansEnter ==
    /\ exPc = "kmeans"
    /\ IF Len(exPixels) = 0 \/ Len(exPixels) <= exColorCount
       THEN /\ exClusters' = kMeansClustering(exPixels, exColorCount, defaultIterations, <<>>)
            /\ exPc' = "sort"
            /\ UNCHANGED <<exCentroids, exSeeds>>
       ELSE /\ \E i \in DOMAIN exPixels :
                  /\ exCentroids' = <<exPixels[i]>>
                  /\ exSeeds' = <<i>>
            /\ exPc' = "clustering"
            /\ UNCHANGED exClusters
    /\ UNCHANGED <<exData, exColorCount, exPixels, exSeedIterations, exIter, exFinal, exColors>>

\* one iteration of `while (centroids.length < k)`
ExSeedIteration ==
    /\ exPc = "clustering"
    /\ Len(exCentroids) < exColorCount
    /\ \E i \in seedIteration(exPixels, exCentroids) :
          IF i = 0
          THEN /\ exSeedIterations - (Len(exCentroids) - 1) < MaxSeedRetries
               /\ UNCHANGED <<exCentroids, exSeeds>>
          ELSE /\ exCentroids' = Append(exCentroids, exPixels[i])
               /\ exSeeds' = Append(exSeeds, i)
    /\ exSeedIterations' = exSeedIterations + 1
    /\ UNCHANGED <<exData, exColorCount, exPc, exPixels, exIter, exFinal, exClusters, exColors>>

\* one iteration of `for (let iter = 0; iter < iterations; iter++)`
ExLloydIteration ==
    /\ exPc = "clustering"
    /\ ~(Len(exCentroids) < exColorCount)
    /\ exIter < defaultIterations
    /\ exCentroids' = lloydStep(exPixels, exCentroids, exColorCount)
    /\ exIter' = exIter + 1
    /\ UNCHANGED <<exData, exColorCount, exPc, exPixels, exSeeds, exSeedIterations,
                   exFinal, exClusters, exColors>>

\* the final assignment and the filter of the empty clusters
ExFinalAssignment ==
    /\ exPc = "clustering"
    /\ ~(Len(exCentroids) < exColorCount)
    /\ ~(exIter < defaultIterations)
    /\ exClusters' = SelectSeq(finalClusters(exPixels, exCentroids), LAMBDA c : c.count > 0)
    /\ exFinal' = exFinal + 1
    /\ exPc' = "sort"
    /\ UNCHANGED <<exData, exColorCount, exPixels, exCentroids, exSeeds, exSeedIterations,
                   exIter, exColors>>

\* clusters.sort(...), then rgbToHex and parseColor per cluster, and the return
ExSortAndParse ==
    /\ exPc = "sort"
    /\ LET sorted == sortByCount(exClusters)
           parsed == [j \in DOMAIN sorted |-> parseColor(hexLiteral(rgbToHex(sorted[j].center)))]
       IN  exColors' = SelectSeq(parsed, LAMBDA c : c # null)
    /\ exPc' = "done"
    /\ UNCHANGED <<exData, exColorCount, exPixels, exCentroids, exSeeds, exSeedIterations,
                   exIter, exFinal, exClusters>>

----------------------------------------------------------------------------
(* The sampling loop of getPixelsFromImageData on a canvas of smLength pixels *)

SampleIdle == smLength = 0 /\ smExamined = Undefined

GetPixelsLoop ==
    /\ smExamined = Undefined
    /\ smExamined' = Cardinality(loopOffsets(4 * smLength))
    /\ UNCHANGED smLength

----------------------------------------------------------------------------
(* Calls of generateColorful.  cfConfig and cfSpace are the arguments the   *)
(* caller holds, cfClock is Date.now(), and an entry of cfCalls is one call: *)
(* its arguments, the time it was made, the colours it returned and the    *)
(* swaps its shuffle made.                                                 *)

ColorfulIdle ==
    cfConfig = Undefined /\ cfSpace = "oklch" /\ cfClock = 0 /\ cfCalls = <<>>

CallGenerateColorful ==
    /\ Len(cfCalls) < MaxColorfulCalls
    /\ LET out == generateColorful(cfConfig, cfSpace, cfClock)
       IN  cfCalls' = Append(cfCalls, [config |-> cfConfig, colorSpace |-> cfSpace,
                                       now |-> cfClock, colors |-> out.colors,
                                       swaps |-> out.swaps])
    /\ UNCHANGED <<cfConfig, cfSpace, cfClock>>

\* the caller sets or clears the shuffle flag of its config
SetShuffle ==
    /\ \E b \in {0, 1} :
          /\ b # cfConfig.shuffle
          /\ cfConfig' = [cfConfig EXCEPT !.shuffle = b]
    /\ UNCHANGED <<cfSpace, cfClock, cfCalls>>

\* a millisecond passes
ClockTick ==
    /\ cfClock < MaxClock
    /\ cfClock' = cfClock + 1
    /\ UNCHANGED <<cfConfig, cfSpace, cfCalls>>

----------------------------------------------------------------------------
(* generateVariations called with any config *)

VariationsIdle ==
    /\ vrBase = null /\ vrSpace = "oklch"
    /\ vrConfig = [type |-> "monochromatic", count |-> 10]
    /\ variationColors = <<>> /\ vrCalled = FALSE

CallGenerateVariations ==
    /\ ~vrCalled
    /\ variationColors' = generateVariations(vrBase, vrConfig, vrSpace)
    /\ vrCalled' = TRUE
    /\ UNCHANGED <<vrBase, vrSpace, vrConfig>>

\* base colours of generateTonalScale, from achromatic to saturated, and step lists
TonalBases ==
    { fromOklch(l, c, h) : l \in {300, 600}, c \in {0, 5, 8, 9, 50, 150}, h \in {20000, 250000} }
TonalStepLists == { DEFAULT_STEPS, <<500>>, <<0, 1000>>, <<>> }

\* backgrounds handed to getContrastTextColor and getContrastTextColorFast: colour
\* strings (greys of every lightness in steps of 0.05, colours, unparsable strings)
\* and ColorResults
GreyLiterals == { [valid |-> TRUE, l |-> 50 * n, c |-> 0, h |-> NaN] : n \in 0..20 }
ColorStrings ==
    GreyLiterals \cup { IndigoLiteral, RedLiteral, BadLiteral,
                        [valid |-> FALSE, l |-> 1000, c |-> 0, h |-> NaN] }
ContrastInputs == ColorStrings \cup Palette \cup TonalBases

----------------------------------------------------------------------------
(* generateTonalScale called with any base colour and step list; tnChromas  *)
(* are the chromas its OKLCH branch computed for the steps                 *)

TonalIdle ==
    /\ tnBase = null /\ tnSteps = <<>> /\ tnSpace = "oklch"
    /\ tonalColors = <<>> /\ tnChromas = <<>> /\ tnCalled = FALSE

CallGenerateTonalScale ==
    /\ ~tnCalled
    /\ tonalColors' = generateTonalScale(tnBase, tnSteps, tnSpace)
    /\ tnChromas' = IF tnSpace = "oklch" THEN tonalChromas(tnBase, tnSteps) ELSE <<>>
    /\ tnCalled' = TRUE
    /\ UNCHANGED <<tnBase, tnSteps, tnSpace>>

----------------------------------------------------------------------------
(* getContrastTextColor and getContrastTextColorFast called with a colour   *)
(* string or a ColorResult                                                 *)

ContrastIdle == ctBg = null /\ ctFn = "none" /\ ctOut = ""

CallGetContrastTextColor ==
    /\ ctFn = "none"
    /\ ctFn' = "getContrastTextColor"
    /\ ctOut' = getContrastTextColor(ctBg)
    /\ UNCHANGED ctBg

CallGetContrastTextColorFast ==
    /\ ctFn = "none"
    /\ ctFn' = "getContrastTextColorFast"
    /\ ctOut' = getContrastTextColorFast(ctBg)
    /\ UNCHANGED ctBg

GenIdle == ColorfulIdle /\ VariationsIdle /\ TonalIdle /\ ContrastIdle

MoreIdle == ExtractIdle /\ SampleIdle /\ GenIdle

----------------------------------------------------------------------------
(* Specifications *)

InitHue ==
    /\ hueOp = "idle"
    /\ hueIn \in [h1 : WideHues \cup {NaN}, h2 : UnitHues \cup {NaN}, t : LerpTs]
    /\ hueOut = <<>>
    /\ InterpIdle /\ HarmonyIdle /\ ImageIdle /\ MoreIdle

NextHue ==
    \/ CallNormalizeHue /\ UNCHANGED <<interpVars, harmonyVars, hpanelVars, imageVars, moreVars>>
    \/ CallLerpHue /\ UNCHANGED <<interpVars, harmonyVars, hpanelVars, imageVars, moreVars>>

SpecHue == InitHue /\ [][NextHue]_vars

InitInterp ==
    /\ ipInputColors \in ControlLists
    /\ ipMethod = "linear"
    /\ ipSteps \in (-1)..MaxSteps
    /\ ipColorSpace \in ColorSpaces
    /\ interpolatedColors = <<>>
    /\ ipCalled = FALSE
    /\ HueIdle /\ HarmonyIdle /\ ImageIdle /\ MoreIdle

NextInterp ==
    \/ CallInterpolateLinear /\ UNCHANGED <<hueVars, harmonyVars, hpanelVars, imageVars, moreVars>>
    \/ CallInterpolateCatmullRom /\ UNCHANGED <<hueVars, harmonyVars, hpanelVars, imageVars, moreVars>>

SpecInterp == InitInterp /\ [][NextInterp]_vars

InitHarmony ==
    /\ hmBase \in Palette
    /\ hmSpace \in ColorSpaces
    /\ hmConfig = [type |-> "triadic", count |-> Undefined, spread |-> Undefined]
    /\ harmonyColors = <<>>
    /\ hmCalled = FALSE
    /\ harmonyType = "triadic" /\ goldenCount = 12 /\ analogousSpread = 30
    /\ hpTyped = Undefined
    /\ HueIdle /\ InterpIdle /\ ImageIdle /\ MoreIdle

NextHarmony ==
    \/ CallGenerateHarmony /\ UNCHANGED <<hueVars, interpVars, imageVars, moreVars>>
    \/ SetHarmonyType /\ UNCHANGED <<hueVars, interpVars, imageVars, moreVars>>
    \/ GoldenCountTyped /\ UNCHANGED <<hueVars, interpVars, imageVars, moreVars>>
    \/ GoldenCountSlider /\ UNCHANGED <<hueVars, interpVars, imageVars, moreVars>>
    \/ AnalogousSpreadSlider /\ UNCHANGED <<hueVars, interpVars, imageVars, moreVars>>

SpecHarmony == InitHarmony /\ [][NextHarmony]_vars

InitImage == ImageIdle /\ HueIdle /\ InterpIdle /\ HarmonyIdle /\ MoreIdle

NextImage ==
    \/ HandleFileChange /\ UNCHANGED <<hueVars, interpVars, harmonyVars, hpanelVars, moreVars>>
    \/ HandleDrop /\ UNCHANGED <<hueVars, interpVars, harmonyVars, hpanelVars, moreVars>>
    \/ HandleReextract /\ UNCHANGED <<hueVars, interpVars, harmonyVars, hpanelVars, moreVars>>
    \/ HandleClear /\ UNCHANGED <<hueVars, interpVars, harmonyVars, hpanelVars, moreVars>>
    \/ SetColorCountTyped /\ UNCHANGED <<hueVars, interpVars, harmonyVars, hpanelVars, moreVars>>
    \/ SetColorCountSlider /\ UNCHANGED <<hueVars, interpVars, harmonyVars, hpanelVars, moreVars>>
    \/ ExtractResolved /\ UNCHANGED <<hueVars, interpVars, harmonyVars, hpanelVars, moreVars>>
    \/ ExtractRejected /\ UNCHANGED <<hueVars, interpVars, harmonyVars, hpanelVars, moreVars>>

SpecImage == InitImage /\ [][NextImage]_vars

InitExtract ==
    /\ exData \in ExImages
    /\ exColorCount \in ExColorCounts
    /\ exPc = "pixels"
    /\ exPixels = <<>> /\ exCentroids = <<>> /\ exSeeds = <<>>
    /\ exSeedIterations = 0 /\ exIter = 0 /\ exFinal = 0
    /\ exClusters = <<>> /\ exColors = <<>>
    /\ SampleIdle /\ GenIdle
    /\ HueIdle /\ InterpIdle /\ HarmonyIdle /\ ImageIdle

NextExtract ==
    \/ ExGetPixels /\ UNCHANGED <<hueVars, interpVars, harmonyVars, hpanelVars, imageVars, sampleVars, genVars>>
    \/ ExKMeansEnter /\ UNCHANGED <<hueVars, interpVars, harmonyVars, hpanelVars, imageVars, sampleVars, genVars>>
    \/ ExSeedIteration /\ UNCHANGED <<hueVars, interpVars, harmonyVars, hpanelVars, imageVars, sampleVars, genVars>>
    \/ ExLloydIteration /\ UNCHANGED <<hueVars, interpVars, harmonyVars, hpanelVars, imageVars, sampleVars, genVars>>
    \/ ExFinalAssignment /\ UNCHANGED <<hueVars, interpVars, harmonyVars, hpanelVars, imageVars, sampleVars, genVars>>
    \/ ExSortAndParse /\ UNCHANGED <<hueVars, interpVars, harmonyVars, hpanelVars, imageVars, sampleVars, genVars>>

SpecExtract == InitExtract /\ [][NextExtract]_vars

InitSample ==
    /\ smLength \in SampleSizes
    /\ smExamined = Undefined
    /\ ExtractIdle /\ GenIdle
    /\ HueIdle /\ InterpIdle /\ HarmonyIdle /\ ImageIdle

NextSample ==
    \/ GetPixelsLoop /\ UNCHANGED <<hueVars, interpVars, harmonyVars, hpanelVars, imageVars, pipeVars, genVars>>

SpecSample == InitSample /\ [][NextSample]_vars

InitColorful ==
    /\ cfConfig \in ColorfulConfigs
    /\ cfSpace \in ColorSpaces
    /\ cfClock = 1
    /\ cfCalls = <<>>
    /\ VariationsIdle /\ TonalIdle /\ ContrastIdle /\ ExtractIdle /\ SampleIdle
    /\ HueIdle /\ InterpIdle /\ HarmonyIdle /\ ImageIdle

NextColorful ==
    \/ CallGenerateColorful /\ UNCHANGED <<hueVars, interpVars, harmonyVars, hpanelVars, imageVars, pipeVars, sampleVars, variationVars, tonalVars, contrastVars>>
    \/ SetShuffle /\ UNCHANGED <<hueVars, interpVars, harmonyVars, hpanelVars, imageVars, pipeVars, sampleVars, variationVars, tonalVars, contrastVars>>
    \/ ClockTick /\ UNCHANGED <<hueVars, interpVars, harmonyVars, hpanelVars, imageVars, pipeVars, sampleVars, variationVars, tonalVars, contrastVars>>

SpecColorful == InitColorful /\ [][NextColorful]_vars

InitVariations ==
    /\ vrBase \in VariationBases
    /\ vrSpace \in ColorSpaces
    /\ vrConfig \in [type : VariationTypes, count : VariationCounts]
    /\ variationColors = <<>>
    /\ vrCalled = FALSE
    /\ ColorfulIdle /\ TonalIdle /\ ContrastIdle /\ ExtractIdle /\ SampleIdle
    /\ HueIdle /\ InterpIdle /\ HarmonyIdle /\ ImageIdle

NextVariations ==
    \/ CallGenerateVariations /\ UNCHANGED <<hueVars, interpVars, harmonyVars, hpanelVars, imageVars, pipeVars, sampleVars, colorfulVars, tonalVars, contrastVars>>

SpecVariations == InitVariations /\ [][NextVariations]_vars

InitTonal ==
    /\ tnBase \in TonalBases
    /\ tnSteps \in TonalStepLists
    /\ tnSpace \in ColorSpaces
    /\ tonalColors = <<>> /\ tnChromas = <<>>
    /\ tnCalled = FALSE
    /\ ContrastIdle /\ ColorfulIdle /\ VariationsIdle /\ ExtractIdle /\ SampleIdle
    /\ HueIdle /\ InterpIdle /\ HarmonyIdle /\ ImageIdle

NextTonal ==
    \/ CallGenerateTonalScale /\ UNCHANGED <<hueVars, interpVars, harmonyVars, hpanelVars, imageVars, pipeVars, sampleVars, colorfulVars, variationVars, contrastVars>>

SpecTonal == InitTonal /\ [][NextTonal]_vars

InitContrast ==
    /\ ctBg \in ContrastInputs
    /\ ctFn = "none"
    /\ ctOut = ""
    /\ TonalIdle /\ ColorfulIdle /\ VariationsIdle /\ ExtractIdle /\ SampleIdle
    /\ HueIdle /\ InterpIdle /\ HarmonyIdle /\ ImageIdle

NextContrast ==
    \/ CallGetContrastTextColor /\ UNCHANGED <<hueVars, interpVars, harmonyVars, hpanelVars, imageVars, pipeVars, sampleVars, colorfulVars, variationVars, tonalVars>>
    \/ CallGetContrastTextColorFast /\ UNCHANGED <<hueVars, interpVars, harmonyVars, hpanelVars, imageVars, pipeVars, sampleVars, colorfulVars, variationVars, tonalVars>>

SpecContrast == InitContrast /\ [][NextContrast]_vars

----------------------------------------------------------------------------
(* Claims *)

C5_ShortestArc ==
    (hueOp = "lerpHue" /\ hueIn.h1 # NaN /\ hueIn.h2 # NaN)
    => LET raw == hueIn.h2 - hueIn.h1
           tn  == hueIn.t[1]
           td  == hueIn.t[2]
           out == hueOut[1]
       IN  /\ out \in 0..(Turn - 1)
           /\ \E d \in {raw, raw - Turn, raw + Turn} :
                 /\ Abs(d) <= 180 * Deg
                 /\ out = (hueIn.h1 + (d * tn) \div td) % Turn
           /\ (hueIn.h1 = 350 * Deg /\ hueIn.h2 = 10 * Deg /\ hueIn.t = <<1, 2>>) => out = 0

C5_Witness ==
    /\ hueOp = "lerpHue" /\ hueIn.h1 = 350 * Deg /\ hueIn.h2 = 10 * Deg
    /\ hueIn.t = <<1, 2>> /\ hueOut = <<0>>

\* C6: degenerate interpolation inputs, for both methods: no control point
\* gives the empty result, one control point gives that colour alone, and
\* two or more control points with steps < 2 give [first, last].
C6_Degenerate ==
    ipCalled =>
        LET n == Len(ipInputColors)
        IN  /\ n = 0 => interpolatedColors = <<>>
            /\ n = 1 => interpolatedColors = <<ipInputColors[1]>>
            /\ (n >= 2 /\ ipSteps < 2) =>
                   interpolatedColors = <<ipInputColors[1], ipInputColors[n]>>

C6_Witness ==
    /\ ipCalled /\ ipMethod = "catmull-rom" /\ Len(ipInputColors) = 3 /\ ipSteps = 1
    /\ ipInputColors[1] # ipInputColors[3]
    /\ interpolatedColors = <<ipInputColors[1], ipInputColors[3]>>

\* C7: normalizeHue(h) lies in [0,360) for every h, negative, zero or very
\* large, and normalizeHue(h) = normalizeHue(h + 360).
C7_NormalizeHue ==
    hueOp = "normalizeHue" =>
        /\ hueOut[1] \in 0..(Turn - 1)
        /\ hueOut[1] = hueOut[2]
        /\ (hueOut[1] - hueIn.h1) % Turn = 0

C7_Witness ==
    /\ hueOp = "normalizeHue" /\ hueIn.h1 = -30 * Deg /\ hueOut = <<330 * Deg, 330 * Deg>>

\* the hue of a colour in the colour space the palette is generated in
WorkingHue(col, space) == IF space = "oklch" THEN col.oklch.h ELSE col.hsl.h

hmCount  == IF hmConfig.count = Undefined THEN 5 ELSE hmConfig.count
hmSpread == IF hmConfig.spread = Undefined THEN 30 ELSE hmConfig.spread

\* C2 as claimed: every output of generateHarmony stores the base's L and C
\* (OKLCH) or S and L (HSL), also when the rotated hue has a smaller gamut.
C2_Original ==
    hmCalled =>
        \A i \in DOMAIN harmonyColors :
            IF hmSpace = "oklch"
            THEN /\ harmonyColors[i].oklch.l = hmBase.oklch.l
                 /\ harmonyColors[i].oklch.c = hmBase.oklch.c
            ELSE /\ harmonyColors[i].hsl.s = hmBase.hsl.s
                 /\ harmonyColors[i].hsl.l = hmBase.hsl.l

\* C2 amended: in HSL every output stores the base's S and L; in OKLCH every
\* output stores the base's L, and its stored C is the base's C when that
\* chroma is displayable at the rotated hue, otherwise the smaller chroma
\* of the sRGB gamut boundary at that lightness and hue.
C2_LightnessKeptChromaClamped ==
    hmCalled =>
        \A i \in DOMAIN harmonyColors :
            IF hmSpace = "oklch"
            THEN LET out  == harmonyColors[i].oklch
                     want == [l |-> hmBase.oklch.l, c |-> hmBase.oklch.c, h |-> out.h]
                 IN  /\ out.l = hmBase.oklch.l
                     /\ out.c <= hmBase.oklch.c
                     /\ displayable(want) => out.c = hmBase.oklch.c
                     /\ ~displayable(want) => out.c = MaxChroma(out.l, out.h)
            ELSE /\ harmonyColors[i].hsl.s = hmBase.hsl.s
                 /\ harmonyColors[i].hsl.l = hmBase.hsl.l

C2_Witness ==
    /\ hmCalled /\ hmSpace = "oklch" /\ hmConfig.type = "complementary"
    /\ Len(harmonyColors) = 2
    /\ harmonyColors[2].oklch.l = hmBase.oklch.l
    /\ harmonyColors[2].oklch.c < hmBase.oklch.c

\* the documented hue offsets (1/1000 degree), in output order
ExpectedOffsets(type, count, spread) ==
    CASE type = "complementary"       -> <<0, 180000>>
      [] type = "split-complementary" -> <<0, 150000, 210000>>
      [] type = "triadic"             -> <<0, 120000, 240000>>
      [] type = "tetradic"            -> <<0, 90000, 180000, 270000>>
      [] type = "analogous"           ->
            <<-2000 * spread, -1000 * spread, 0, 1000 * spread, 2000 * spread>>
      [] type = "golden-ratio"        ->
            [i \in 1..count |-> ((i - 1) * 137507764) \div 1000]

Resolved == { i \in DOMAIN extractions : extractions[i].status = "resolved" }

usablePixels(i) == getPixelsFromImageData(extractions[i].source.data)

\* C8 as claimed: when a second extraction was started before the first had
\* settled and both have resolved, the palette shown and the base colour are
\* those of the extraction issued last, whichever decode finished first.
C8_LastIssuedWins ==
    LET n == Len(extractions)
    IN  (/\ n >= 2 /\ Pending = {} /\ extractions[n].overlapped
         /\ \A i \in 1..n : extractions[i].status = "resolved" /\ extractions[i].colors # <<>>
         /\ previewUrl # NoFile)
        => /\ imColors = extractions[n].colors
           /\ pgBaseColor = extractions[n].colors[1]

\* C9 as claimed: with 1 <= usable pixels <= colorCount, there is exactly one
\* cluster per distinct pixel value, each with count 1.
C9_Original ==
    \A i \in Resolved :
        LET px == usablePixels(i)
            cl == extractions[i].clusters
        IN  (Len(px) >= 1 /\ Len(px) <= extractions[i].colorCount)
            => /\ Len(cl) = Cardinality({ px[j] : j \in DOMAIN px })
               /\ \A j \in DOMAIN cl : cl[j].count = 1

\* C9 amended: with 1 <= usable pixels <= colorCount, k-means is skipped and
\* there is exactly one cluster per usable pixel, in scan order, each with
\* count 1; pixels of the same colour each get a cluster of their own.
C9_OneClusterPerPixel ==
    \A i \in Resolved :
        LET px == usablePixels(i)
            cl == extractions[i].clusters
        IN  (Len(px) >= 1 /\ Len(px) <= extractions[i].colorCount)
            => /\ Len(cl) = Len(px)
               /\ \A j \in DOMAIN px : cl[j] = [center |-> px[j], count |-> 1]

C9_Witness ==
    \E i \in Resolved :
        /\ extractions[i].source = FileB /\ extractions[i].colorCount = 8
        /\ Len(usablePixels(i)) = 3
        /\ usablePixels(i)[1] = usablePixels(i)[2]
        /\ Len(extractions[i].clusters) = 3
        /\ extractions[i].clusters[2] = [center |-> [r |-> 10, g |-> 200, b |-> 10], count |-> 1]

\* C10: the colours extractColorsFromImage returns are dominance-sorted: one
\* colour per cluster, the member counts of the clusters behind consecutive
\* colours non-increasing, for every pixel set and every seeding outcome.
C10_DominanceSorted ==
    \A i \in Resolved :
        LET sorted == extractions[i].sorted
            out    == extractions[i].colors
        IN  /\ Len(out) = Len(sorted)
            /\ Len(sorted) = Len(extractions[i].clusters)
            /\ \A j \in DOMAIN out :
                  out[j] = parseColor(hexLiteral(rgbToHex(sorted[j].center)))
            /\ \A j \in 1..(Len(sorted) - 1) : sorted[j].count >= sorted[j + 1].count

C10_Witness ==
    \E i \in Resolved :
        /\ Len(usablePixels(i)) > extractions[i].colorCount
        /\ Len(extractions[i].clusters) = 2
        /\ extractions[i].clusters[1].count < extractions[i].clusters[2].count
        /\ extractions[i].sorted[1].count > extractions[i].sorted[2].count
        /\ imColors = extractions[i].colors

----------------------------------------------------------------------------
(* Claims on one run of extractColorsFromImage *)

\* a pixel <<r, g, b, a>> that is neither transparent nor near white nor near black
usable(p) == p[4] >= 128 /\ p[1] + p[2] + p[3] >= 3 * 5 /\ p[1] + p[2] + p[3] <= 3 * 250

\* C11: when no pixel of the image survives the filter, the run ends without an
\* error, returns no colour, and no clustering step has run: no centroid was
\* chosen, no seeding or Lloyd iteration and no final assignment was made.
C11_NoUsablePixels ==
    (exPc = "done" /\ \A j \in DOMAIN exData : ~usable(exData[j]))
        => /\ exColors = <<>> /\ exClusters = <<>>
           /\ exCentroids = <<>> /\ exSeeds = <<>>
           /\ exSeedIterations = 0 /\ exIter = 0 /\ exFinal = 0

C11_Witness ==
    /\ exPc = "done" /\ exData = FileT.data /\ exColors = <<>>

\* C12: the pixels getPixelsFromImageData returns are exactly the pixels of the
\* image with alpha >= 128 and mean brightness in [5, 250], in scan order (every
\* pixel is sampled in an image of fewer than 20000 pixels).
C12_PixelFilter ==
    exPc \notin {"idle", "pixels"}
        => LET kept == SelectSeq(exData, usable)
           IN  exPixels = [j \in DOMAIN kept |-> [r |-> kept[j][1], g |-> kept[j][2], b |-> kept[j][3]]]

C12_Witness ==
    /\ exPc = "done"
    /\ exData = << <<100, 50, 0, 128>>, Opaque(251, 250, 250) >>
    /\ exPixels = << [r |-> 100, g |-> 50, b |-> 0] >>

\* C14: a run with more usable pixels than k ends, and when it has ended the
\* seeding loop has run one iteration per centroid after the first (each one
\* added a centroid) and left exactly k centroids, ten Lloyd iterations have
\* run, and one final assignment pass.
C14_SeedingLloydFinal ==
    (exPc \in {"sort", "done"} /\ Len(exPixels) > exColorCount)
        => /\ Len(exCentroids) = exColorCount /\ Len(exSeeds) = exColorCount
           /\ exSeedIterations = exColorCount - 1
           /\ exIter = 10
           /\ exFinal = 1

----------------------------------------------------------------------------
(* Claims on the sampling loop *)

\* C13: for a canvas of N pixels the sampling loop examines at most 10,000 pixels.
C13_AtMostTenThousand ==
    smExamined # Undefined => smExamined <= 10000

----------------------------------------------------------------------------
(* Claims on the ImagePanel, continued *)

\* C15: an image that cannot be loaded never yields colours, and the step in
\* which an extraction is rejected returns no colour and leaves the panel with
\* an empty palette, an error message, isLoading false and the base colour it had.
C15_DecodeFailure ==
    /\ [](\A i \in DOMAIN extractions :
            ~extractions[i].source.loads
                => extractions[i].status # "resolved" /\ extractions[i].colors = <<>>)
    /\ [][\A i \in DOMAIN extractions :
            (extractions[i].status = "pending" /\ extractions'[i].status = "rejected")
                => /\ extractions'[i].colors = <<>>
                   /\ imColors' = <<>>
                   /\ imError' # ""
                   /\ isLoading' = FALSE
                   /\ pgBaseColor' = pgBaseColor]_vars

C15_Witness ==
    /\ Len(extractions) = 2
    /\ extractions[1].source = FileA /\ extractions[1].status = "resolved"
    /\ extractions[2].source = FileX /\ extractions[2].status = "rejected"
    /\ ~extractions[2].overlapped
    /\ imColors = <<>> /\ imError = "Failed to load image" /\ ~isLoading
    /\ pgBaseColor = extractions[1].colors[1]

----------------------------------------------------------------------------
(* Claims on generateColorful *)

\* the hue of a colour in the colour space it was generated in
spaceHue(color, colorSpace) == IF colorSpace = "oklch" THEN color.oklch.h ELSE color.hsl.h

\* how often x occurs in the sequence s
occurrences(s, x) == Cardinality({ n \in DOMAIN s : s[n] = x })

isPermutation(a, b) ==
    /\ Len(a) = Len(b)
    /\ \A n \in DOMAIN a : occurrences(a, a[n]) = occurrences(b, a[n])

inRange(call, lo, hi) ==
    /\ \A n \in DOMAIN call.colors :
          /\ lo * Deg <= spaceHue(call.colors[n], call.colorSpace)
          /\ spaceHue(call.colors[n], call.colorSpace) <= hi * Deg
    /\ (call.config.shuffle # 1 /\ call.config.count >= 1)
          => spaceHue(call.colors[1], call.colorSpace) = lo * Deg
    /\ (call.config.shuffle # 1 /\ call.config.count >= 2)
          => spaceHue(call.colors[Len(call.colors)], call.colorSpace) = hi * Deg

C18_HueSorted ==
    \A a \in DOMAIN cfCalls :
        (cfCalls[a].config.method # "random" /\ cfCalls[a].config.shuffle # 1)
        => \A n \in 1..(Len(cfCalls[a].colors) - 1) :
              spaceHue(cfCalls[a].colors[n], cfCalls[a].colorSpace)
                  <= spaceHue(cfCalls[a].colors[n + 1], cfCalls[a].colorSpace)

\* C19: a shuffled call of a method other than random returns a permutation of what
\* the same call returns without shuffle, every swap <<i, j>> of the shuffle has
\* 0 <= j <= i, and for random the flag changes nothing.  Stated of the latest
\* call, which every call is in the state it returns in.
C19_ShuffleReorders ==
    cfCalls # <<>> =>
        LET call == cfCalls[Len(cfCalls)]
            plain == generateColorful([call.config EXCEPT !.shuffle = 0],
                                      call.colorSpace, call.now).colors
        IN  /\ (call.config.shuffle = 1 /\ call.config.method # "random") =>
                  /\ isPermutation(call.colors, plain)
                  /\ Len(call.swaps) = Max(Len(plain) - 1, 0)
                  /\ \A k \in DOMAIN call.swaps :
                        0 <= call.swaps[k][2] /\ call.swaps[k][2] <= call.swaps[k][1]
            /\ call.config.method = "random" => call.colors = plain

\* a shuffled call that moved colours, after the same call without shuffle
C19_Witness ==
    /\ Len(cfCalls) >= 2
    /\ cfCalls[1].config.shuffle = 0
    /\ cfCalls[2].config = [cfCalls[1].config EXCEPT !.shuffle = 1]
    /\ cfCalls[2].config.method \notin {"random", "warm"}
    /\ Len(cfCalls[2].colors) = MaxColorfulCount
    /\ cfCalls[2].colors # cfCalls[1].colors
    /\ \E k \in DOMAIN cfCalls[2].swaps : cfCalls[2].swaps[k][2] < cfCalls[2].swaps[k][1]
    /\ \E k \in DOMAIN cfCalls[2].swaps : cfCalls[2].swaps[k][2] = cfCalls[2].swaps[k][1]

----------------------------------------------------------------------------
(* Claims on generateVariations *)

\* L * (1 - 0.85 t) at t = i / (count - 1), in 1/1000
shadeLightness(l, i, count) == (l * (100 * (count - 1) - 85 * i)) \div (100 * (count - 1))

\* C20: for count >= 2 every variation type returns count colours, the first
\* at t = 0 and the last at t = 1; the OKLCH shades have lightness
\* max(0.05, L * (1 - 0.85 t)) at t = i / (count - 1), never below 0.05 and never
\* rising from one colour to the next.
C20_VariationsCount ==
    (vrCalled /\ vrConfig.count >= 2) =>
        LET n    == vrConfig.count
            out  == variationColors
        IN  /\ Len(out) = n
            /\ (vrConfig.type = "lightness-gradient" /\ vrSpace = "oklch")
                  => out[1].oklch.l = 100 /\ out[n].oklch.l = 950
            /\ (vrConfig.type = "lightness-gradient" /\ vrSpace = "hsl")
                  => out[1].hsl.l = 500 /\ out[n].hsl.l = 9500
            /\ (vrConfig.type = "monochromatic" /\ vrSpace = "oklch")
                  => out[1].oklch.l = 150 /\ out[n].oklch.l = 900
            /\ (vrConfig.type = "saturation-gradient" /\ vrSpace = "hsl")
                  => out[1].hsl.s = 500 /\ out[n].hsl.s = 9500
            /\ (vrConfig.type = "temperature" /\ vrSpace = "hsl")
                  => out[1].hsl.h = 240 * Deg /\ out[n].hsl.h = 30 * Deg
            /\ (vrConfig.type = "tints" /\ vrSpace = "oklch")
                  => out[1].oklch.l = vrBase.oklch.l /\ out[n].oklch.l = 970
            /\ (vrConfig.type = "shades" /\ vrSpace = "oklch") =>
                  /\ \A i \in 0..(n - 1) :
                        /\ out[i + 1].oklch.l = Max(50, shadeLightness(vrBase.oklch.l, i, n))
                        /\ out[i + 1].oklch.l >= 50
                  /\ \A i \in 1..(n - 1) : out[i + 1].oklch.l <= out[i].oklch.l

\* OKLCH shades whose last colours sit on the floor while the first do not
C20_Witness ==
    /\ vrCalled
    /\ vrConfig.type = "shades" /\ vrSpace = "oklch"
    /\ vrConfig.count = MaxVariationCount
    /\ Len(variationColors) = MaxVariationCount
    /\ variationColors[1].oklch.l = vrBase.oklch.l
    /\ variationColors[1].oklch.l > 50
    /\ variationColors[MaxVariationCount].oklch.l = 50
    /\ shadeLightness(vrBase.oklch.l, MaxVariationCount - 1, MaxVariationCount) < 50

----------------------------------------------------------------------------
(* Claims on the interpolation engine, continued *)

\* C22: with three or more control points and steps >= 2, every colour of the
\* Catmull-Rom result is the colour of a valid request: in OKLCH lightness in
\* [0, 1] and chroma >= 0, in HSL saturation and lightness in [0, 100], and the
\* hue in [0, 360).
C22_ValidRequests ==
    (ipCalled /\ ipMethod = "catmull-rom" /\ Len(ipInputColors) >= 3 /\ ipSteps >= 2) =>
        /\ Len(interpolatedColors) = ipSteps
        /\ \A i \in 0..(ipSteps - 1) :
              LET r == catmullRomRequestAt(ipInputColors, ipSteps, ipColorSpace, i)
              IN  /\ interpolatedColors[i + 1] = requestColor(r, ipColorSpace)
                  /\ 0 <= r.h /\ r.h < Turn
                  /\ ipColorSpace = "oklch" => (0 <= r.l /\ r.l <= LOne /\ r.c >= 0)
                  /\ ipColorSpace = "hsl" =>
                        (0 <= r.s /\ r.s <= Pct100 /\ 0 <= r.l /\ r.l <= Pct100)

\* a Catmull-Rom call in which the spline undershoots chroma 0 and the request is cut to 0
C22_Witness ==
    /\ ipCalled /\ ipMethod = "catmull-rom" /\ ipColorSpace = "oklch"
    /\ Len(ipInputColors) = 3 /\ ipSteps >= 3
    /\ \E i \in 0..(ipSteps - 1) :
          LET seg == segmentIndexAt(i, ipSteps, 2)
              idx == controlIndices(seg, 3)
              raw == catmullRom(ipInputColors[idx[1] + 1].oklch.c, ipInputColors[idx[2] + 1].oklch.c,
                                ipInputColors[idx[3] + 1].oklch.c, ipInputColors[idx[4] + 1].oklch.c,
                                localTn(i, ipSteps, 2), ipSteps - 1)
          IN  /\ raw < 0
              /\ catmullRomRequestAt(ipInputColors, ipSteps, ipColorSpace, i).c = 0
              /\ interpolatedColors[i + 1].oklch.c = 0

\* C23: with exactly two control points interpolateCatmullRom returns what
\* interpolateLinear returns, for every steps value and both colour spaces.
C23_TwoPointsLinear ==
    (ipCalled /\ ipMethod = "catmull-rom" /\ Len(ipInputColors) = 2) =>
        interpolatedColors = interpolateLinear(ipInputColors, ipSteps, ipColorSpace)

C23_Witness ==
    /\ ipCalled /\ ipMethod = "catmull-rom" /\ Len(ipInputColors) = 2
    /\ ipInputColors[1] # ipInputColors[2]
    /\ ipSteps = MaxSteps
    /\ Len(interpolatedColors) = MaxSteps
    /\ interpolatedColors[2] = linearColorAt(ipInputColors, ipSteps, ipColorSpace, 1)
    /\ interpolatedColors[2] # interpolatedColors[1]

\* C26: the Catmull-Rom result passes through the control points: when steps - 1
\* is a multiple of n - 1, the colour at index k (steps - 1) / (n - 1) has the
\* lightness and chroma (in HSL: saturation and lightness) of control point k.
C26_ThroughControlPoints ==
    (/\ ipCalled /\ ipMethod = "catmull-rom"
     /\ Len(ipInputColors) >= 2 /\ ipSteps >= 2
     /\ (ipSteps - 1) % (Len(ipInputColors) - 1) = 0) =>
        \A k \in 0..(Len(ipInputColors) - 1) :
            LET out == interpolatedColors[(k * (ipSteps - 1)) \div (Len(ipInputColors) - 1) + 1]
                cp  == ipInputColors[k + 1]
            IN  IF ipColorSpace = "oklch"
                THEN out.oklch.l = cp.oklch.l /\ out.oklch.c = cp.oklch.c
                ELSE out.hsl.s = cp.hsl.s /\ out.hsl.l = cp.hsl.l

\* three control points of different lightness, the middle one met at the middle index
C26_Witness ==
    /\ ipCalled /\ ipMethod = "catmull-rom" /\ ipColorSpace = "oklch"
    /\ Len(ipInputColors) = 3 /\ ipSteps = 3
    /\ ipInputColors[1].oklch.l # ipInputColors[2].oklch.l
    /\ ipInputColors[3].oklch.l # ipInputColors[2].oklch.l
    /\ interpolatedColors[2].oklch.l = ipInputColors[2].oklch.l
    /\ interpolatedColors[2].oklch.c = ipInputColors[2].oklch.c

\* C27: for n >= 2 control points and steps >= 2, at every i in [0, steps) the
\* segment index is in [0, n - 2] and localT in [0, 1], with segment n - 2 and
\* localT = 1 at i = steps - 1; the four Catmull-Rom control indices are in
\* [0, n - 1], p0 being the first point on the first segment and p3 the last
\* point on the last segment.
C27_IndicesInRange ==
    (ipCalled /\ Len(ipInputColors) >= 2 /\ ipSteps >= 2) =>
        LET n == Len(ipInputColors)
        IN  /\ Len(interpolatedColors) = ipSteps
            /\ \A i \in 0..(ipSteps - 1) :
                  LET seg == segmentIndexAt(i, ipSteps, n - 1)
                      tn  == localTn(i, ipSteps, n - 1)
                      idx == controlIndices(seg, n)
                  IN  /\ 0 <= seg /\ seg <= n - 2
                      /\ 0 <= tn /\ tn <= ipSteps - 1
                      /\ i = ipSteps - 1 => (seg = n - 2 /\ tn = ipSteps - 1)
                      /\ \A j \in 1..4 : 0 <= idx[j] /\ idx[j] <= n - 1
                      /\ idx[2] = seg /\ idx[3] = seg + 1
                      /\ seg = 0 => idx[1] = 0
                      /\ seg = n - 2 => idx[4] = n - 1
                      /\ (ipMethod = "linear") =>
                            interpolatedColors[i + 1]
                                = linearColorAt(ipInputColors, ipSteps, ipColorSpace, i)

C27_Witness ==
    /\ ipCalled /\ ipMethod = "catmull-rom"
    /\ Len(ipInputColors) = 3 /\ ipSteps = 4
    /\ segmentIndexAt(3, 4, 2) = 1 /\ localTn(3, 4, 2) = 3
    /\ controlIndices(1, 3) = <<0, 1, 2, 2>>
    /\ interpolatedColors[4] = catmullRomColorAt(ipInputColors, 4, ipColorSpace, 3)
    /\ interpolatedColors[4].hex = ipInputColors[3].hex

----------------------------------------------------------------------------
(* Claims on generateTonalScale *)

\* C21: the chroma used for a tonal step lies between 0.3 and 1.2 times the
\* chroma of the base colour, whatever the base chroma and the step.
C21_TonalChromaBounded ==
    (tnCalled /\ tnSpace = "oklch") =>
        \A n \in DOMAIN tnChromas :
            /\ 300 * tnBase.oklch.c <= tnChromas[n]
            /\ tnChromas[n] <= 1200 * tnBase.oklch.c

----------------------------------------------------------------------------
(* Claims on contrast.ts *)

\* C24: getContrastTextColor answers white exactly when white has the greater
\* absolute APCA contrast against the background, and black otherwise; for the
\* background #000000 it answers #FFFFFF and for #FFFFFF it answers #000000.
C24_BestTextColor ==
    (ctFn = "getContrastTextColor" /\ bgOf(ctBg) # null) =>
        LET bg    == bgOf(ctBg)
            white == Abs(getAPCAContrast(parseColor(WhiteLiteral), bg))
            black == Abs(getAPCAContrast(parseColor(BlackLiteral), bg))
        IN  /\ ctOut \in {"#FFFFFF", "#000000"}
            /\ white > black => ctOut = "#FFFFFF"
            /\ black >= white => ctOut = "#000000"
            /\ bg = parseColor(BlackLiteral) => (ctOut = "#FFFFFF" /\ white > 100000 /\ black = 0)
            /\ bg = parseColor(WhiteLiteral) => (ctOut = "#000000" /\ black > 100000 /\ white = 0)

C24_Witness ==
    /\ ctFn = "getContrastTextColor"
    /\ ctBg = BlackLiteral
    /\ ctOut = "#FFFFFF"

\* C25: a colour string that does not parse is not answered as if a colour had
\* been given: getContrastTextColor and getContrastTextColorFast return neither
\* of the two text colours for it.
C25_InvalidSurfaced ==
    (ctFn # "none" /\ isString(ctBg) /\ parseColor(ctBg) = null)
        => ctOut \notin {"#FFFFFF", "#000000"}

----------------------------------------------------------------------------
(* Claims on one run of extractColorsFromImage, continued *)

\* C28: in the k-means branch the member counts of the returned clusters sum to
\* the number of usable pixels, every returned cluster has at least one member
\* and at most k clusters are returned; and a Lloyd iteration leaves the
\* centroid of a cluster that no pixel was assigned to where it was.
C28_EveryPixelCounted ==
    /\ []((exPc \in {"sort", "done"} /\ Len(exPixels) > exColorCount)
            => /\ SumSeq([j \in DOMAIN exClusters |-> exClusters[j].count]) = Len(exPixels)
               /\ \A j \in DOMAIN exClusters : exClusters[j].count >= 1
               /\ Len(exClusters) >= 1 /\ Len(exClusters) <= exColorCount)
    /\ [][exIter' = exIter + 1
            => \A i \in DOMAIN exCentroids :
                  (\A j \in DOMAIN exPixels : nearestIdx(exPixels[j], exCentroids) # i)
                      => exCentroids'[i] = exCentroids[i]]_vars

\* three pixels of one colour and k = 2: the second cluster stays empty through
\* the run and one cluster of three members is returned
C28_Witness ==
    /\ exPc = "done" /\ exData = SameData /\ exColorCount = 2
    /\ Len(exPixels) = 3 /\ exIter = defaultIterations
    /\ exCentroids = << [r |-> 60, g |-> 60, b |-> 60], [r |-> 60, g |-> 60, b |-> 60] >>
    /\ exClusters = << [center |-> [r |-> 60, g |-> 60, b |-> 60], count |-> 3] >>

----------------------------------------------------------------------------
(* Claims on the ImagePanel: the loading flag *)

\* C29: isLoading is true exactly while some extraction started by handleExtract
\* has neither resolved nor rejected.
C29_LoadingTracksInFlight ==
    isLoading <=> (Pending # {})

----------------------------------------------------------------------------
(* Claims on generateColorful, continued *)

\* the config of a call without its seed
seedless(config) == [config EXCEPT !.seed = Undefined]

\* C30: for a method other than random and without shuffle the seed does not
\* reach the output: the call returns what the same call returns with another
\* seed given, or with the seed left out at another time, and two such calls
\* that differ in nothing but the seed or the time return the same colours.
C30_SeedOnlyRandomness ==
    /\ cfCalls # <<>> =>
          LET call == cfCalls[Len(cfCalls)]
          IN  (call.config.method # "random" /\ call.config.shuffle # 1) =>
                  \A sd \in {Undefined, 8} :
                      call.colors = generateColorful([call.config EXCEPT !.seed = sd],
                                                     call.colorSpace, call.now + 1).colors
    /\ \A a, b \in DOMAIN cfCalls :
          (/\ seedless([cfCalls[a].config EXCEPT !.shuffle = 0])
                 = seedless([cfCalls[b].config EXCEPT !.shuffle = 0])
           /\ cfCalls[a].colorSpace = cfCalls[b].colorSpace
           /\ cfCalls[a].config.method # "random"
           /\ cfCalls[a].config.shuffle # 1 /\ cfCalls[b].config.shuffle # 1)
          => cfCalls[a].colors = cfCalls[b].colors

\* two calls of an unshuffled method with the seed left out, made at different
\* times and so with different seeds, that returned the same palette
C30_Witness ==
    /\ Len(cfCalls) >= 2
    /\ cfCalls[1].config.seed = Undefined
    /\ cfCalls[1].config.method = "warm"
    /\ cfCalls[1].config.shuffle # 1
    /\ cfCalls[2].config = cfCalls[1].config
    /\ cfCalls[1].now # cfCalls[2].now
    /\ seedOf(cfCalls[1].config, cfCalls[1].now) # seedOf(cfCalls[2].config, cfCalls[2].now)
    /\ Len(cfCalls[1].colors) >= 3
    /\ cfCalls[1].colors = cfCalls[2].colors

====
